---------------------------- MODULE Spec2Model ----------------------------
(***************************************************************************)
(* Model of the vectordb query-execution layer: the paged TableHeap and    *)
(* its TableIterator, the SeqScan / NestedLoopJoin / Delete executors and  *)
(* ExecutionEngine::Execute.                                               *)
(*                                                                         *)
(* One process runs a set of writer threads, each calling                  *)
(* TableHeap::InsertTuple, and one query thread that drives an executor    *)
(* tree, either through ExecutionEngine::Execute or as a parent operator   *)
(* would (direct Init / Next calls).  Every step that touches shared       *)
(* memory is an action of its own, so that the unlatched reads of          *)
(* MakeIterator, TableIterator and GetTuple interleave with InsertTuple.   *)
(***************************************************************************)
EXTENDS Integers, Sequences, FiniteSets, TLC

----------------------------------------------------------------------------
(* Bounds of the model.                                                    *)

\* pages the buffer pool can hand out before NewPage reports INVALID_PAGE_ID
MaxPages == 2
\* payload units one TablePage can hold
PageCap == 2
\* InsertTuple calls started over one behaviour
MaxInserts == 3
\* Next calls a parent operator makes after the first false result
MaxExtraNext == 1
\* rows a scripted child executor produces at most
MaxRows == 2
\* largest element of a vector offered to ComputeDistance
MaxElem == 2
\* largest value a read past the end of a vector's buffer yields
MaxGarbage == 1
\* ComputeDistance calls made over one behaviour
MaxCalls == 2
\* catalog DDL calls made over one behaviour
MaxDDL == 4
\* rows put into the heaps of the catalog's tables
MaxHeapRows == 2
\* rows inserted into the table the transactions work on
MaxTxnRows == 1

----------------------------------------------------------------------------
(* Program constants.                                                      *)

INVALID_PAGE_ID == -1

Writers == {"w1", "w2"}
NoThread == "none"

\* the (size, is_deleted_) pairs offered to InsertTuple; a tuple of size
\* PageCap + 1 fits in no page
TupleKinds == {<<1, FALSE>>, <<1, TRUE>>, <<PageCap, FALSE>>, <<PageCap + 1, FALSE>>}

PageIds == 0 .. (MaxPages - 1)

RID(p, s) == <<p, s>>
GetPageId(rid) == rid[1]
GetSlotNum(rid) == rid[2]
InvalidRID == RID(INVALID_PAGE_ID, 0)
\* "no RID": the value of an optional<RID> that holds nothing
NoRID == <<-2, -2>>

----------------------------------------------------------------------------
(* Shared state: the table heap.                                           *)

VARIABLES
  pages,          \* page id -> [tuples, next]; meaningful for ids < numPages
  numPages,       \* pages allocated by BufferPoolManager::NewPage so far
  first_page_id,  \* TableHeap::first_page_id_
  last_page_id,   \* TableHeap::last_page_id_
  latch_,         \* owner of TableHeap::latch_ (std::mutex), or NoThread
  wlatch,         \* page id -> owner of the page write latch, or NoThread
  alive,          \* FALSE once the process has been terminated
  termReason,     \* why the process was terminated
  NDEBUG,         \* whether the build compiles assert() away: "on", "off",
                  \* or "unset" while no assert has failed yet
  nextId,         \* payload given to the next inserted tuple
  w_pc, w_tuple, w_page, w_npg, w_ret,   \* InsertTuple frames of the writers
  hist,           \* ghost: completed InsertTuple calls, [rid, id]
  q_pc,           \* position of the query thread
  q_driver,       \* who pulls from the root executor: "Execute" or "Parent"
  q_plan,         \* kind of the root plan node
  q_join,         \* join type, left rows and right rows of a NestedLoopJoin plan
  it_rid,         \* TableIterator::rid_ of SeqScanExecutor::iter_
  it_stop,        \* TableIterator::stop_at_rid_
  mk_last,        \* MakeIterator's local last_page_id
  mk_num,         \* MakeIterator's local num_tuples
  q_cur,          \* the (meta, tuple) pair SeqScanExecutor::Next has fetched
  result_set,     \* Execute's *result_set
  q_ret,          \* what Execute returned: "none", "true" or "false"
  raised,         \* the exception the executor tree raised, or "none"
  produced,       \* ghost: rows the root executor's Next produced, in order
  init_count,     \* ghost: Init calls on the root executor
  next_count,     \* ghost: Next calls on the root executor
  false_count,    \* ghost: Next calls that returned false
  late_rows,      \* ghost: rows produced after a Next call returned false
  snap_made       \* ghost: the RIDs whose slot existed when MakeIterator returned

heapVars == <<pages, numPages, first_page_id, last_page_id, latch_, wlatch>>
procVars == <<alive, termReason, NDEBUG>>
writerVars == <<nextId, w_pc, w_tuple, w_page, w_npg, w_ret, hist>>
iterVars == <<it_rid, it_stop, mk_last, mk_num, q_cur, snap_made>>
driverVars == <<q_pc, result_set, q_ret, raised, produced, false_count, late_rows>>
queryVars == <<q_driver, q_plan, q_join, iterVars, driverVars, init_count, next_count>>

----------------------------------------------------------------------------
(* State of the other subsystems of the process.                           *)

VARIABLES
  CACHE_ENABLED,   \* config.cpp: whether ComputeDistance memoizes
  SIMD_ENABLED,    \* config.cpp: whether ComputeDistance uses the AVX loops
  distance_cache,  \* config.cpp: (left, right) -> distance
  d_pc,            \* "idle", "returned" or "aborted": the last ComputeDistance call
  d_call,          \* the arguments of the last ComputeDistance call
  d_ret,           \* the value the last ComputeDistance call returned
  d_prev,          \* the call before the last one, with the value it returned
  d_count          \* ComputeDistance calls made so far

distVars == <<CACHE_ENABLED, SIMD_ENABLED, distance_cache, d_pc, d_call, d_ret, d_prev, d_count>>

VARIABLES
  tables_,         \* Catalog::tables_: table OID -> [name_, oid_, rows of its heap]
  table_names_,    \* Catalog::table_names_: table name -> table OID
  next_table_oid_, \* Catalog::next_table_oid_
  indexes_,        \* Catalog::indexes_: index OID -> [name_, table_name_, ..., entries]
  index_names_,    \* Catalog::index_names_: table name -> (index name -> index OID)
  next_index_oid_, \* Catalog::next_index_oid_
  c_ret,           \* what the last DDL call returned, or "UNIMPLEMENTED" when it threw
  c_count,         \* DDL calls made so far
  c_table_log,     \* ghost: the table OIDs handed out, in order of creation
  c_index_log      \* ghost: the index OIDs handed out, in order of creation

catVars == <<tables_, table_names_, next_table_oid_, indexes_, index_names_, next_index_oid_,
             c_ret, c_count, c_table_log, c_index_log>>

VARIABLES
  session_variables_, \* the value of vector_index_method, "unset" before any set statement
  o_indexes,          \* Catalog::GetTableIndexes of the scanned table, in catalog order
  o_plan,             \* planner.plan_: the plan tree handed to the optimizer
  o_passes,           \* the optimizer passes applied so far: [rule, in, out], oldest first
  p_insert            \* what PlanInsert over o_plan did: [raised, plan, target table]

optVars == <<session_variables_, o_indexes, o_plan, o_passes, p_insert>>

VARIABLES
  txn_map_,        \* TransactionManager::txn_map_: txn id -> [state_, read_ts_, commit_ts_, undo_logs_]
  next_txn_id_,    \* TransactionManager::next_txn_id_, counted from 1 (TXN_START_ID taken off)
  last_commit_ts_, \* TransactionManager::last_commit_ts_
  running_txns_,   \* TransactionManager::running_txns_, the Watermark object
  t_heap,          \* the slots of the table the transactions work on: [ts_, is_deleted_, val, link]
  t_stmt,          \* the last statement or command: [kind, txn, rid, raised, rows]
  t_gced           \* ghost: txn id -> the state_ it had when GarbageCollection erased it

txnVars == <<txn_map_, next_txn_id_, last_commit_ts_, running_txns_, t_heap, t_stmt, t_gced>>

VARIABLES
  current_txn_,    \* vdbmsInstance::current_txn_: the managed transaction, 0 for nullptr
  sql_state,       \* the state of every transaction begun through the instance, by id
  sql_call         \* the last ExecuteSql call: [began, txn, stmt, outcome, ret]

sqlVars == <<current_txn_, sql_state, sql_call>>

VARIABLES
  catalog_lock_,   \* vdbmsInstance::catalog_lock_ (std::shared_mutex): [unique, shared]
  k_pc             \* where each thread calling into the instance stands

lockVars == <<catalog_lock_, k_pc>>

VARIABLES
  dc_cache,         \* the keys of distance_cache, as concurrent callers see it
  dc_pc,            \* where each thread calling ComputeDistance stands
  dc_key            \* the key of the call each thread is in

cacheVars == <<dc_cache, dc_pc, dc_key>>

\* what the query-execution actions leave alone
subsysVars == <<distVars, catVars, optVars, txnVars, sqlVars, lockVars, cacheVars>>

\* what the ComputeDistance actions leave alone, the process state apart
othersOfDist == <<heapVars, writerVars, queryVars, catVars, optVars, txnVars, sqlVars, lockVars, cacheVars>>

\* what the catalog actions leave alone
othersOfCat == <<heapVars, procVars, writerVars, queryVars, distVars, optVars, txnVars, sqlVars, lockVars, cacheVars>>

\* what the optimizer leaves alone
othersOfOpt == <<heapVars, procVars, writerVars, queryVars, distVars, catVars, txnVars, sqlVars, lockVars, cacheVars>>

\* what the transaction manager and the statements run in a transaction leave alone
othersOfTxn == <<heapVars, procVars, writerVars, queryVars, distVars, catVars, optVars, sqlVars, lockVars, cacheVars>>

\* what ExecuteSql leaves alone in this model
othersOfSql == <<heapVars, procVars, writerVars, queryVars, distVars, catVars, optVars, txnVars, lockVars, cacheVars>>

\* what the holders of catalog_lock_ leave alone in this model
othersOfLock == <<heapVars, procVars, writerVars, queryVars, distVars, catVars, optVars, txnVars, sqlVars, cacheVars>>

\* what concurrent ComputeDistance calls leave alone in this model
othersOfCache == <<heapVars, procVars, writerVars, queryVars, distVars, catVars, optVars, txnVars, sqlVars, lockVars>>

\* TablePage::Init leaving a next page id that names the first page
EmptyPage_LinkedToFirst == [tuples |-> <<>>, next |-> 0]

\* a freshly initialised TablePage (TablePage::Init)
EmptyPage == [tuples |-> <<>>, next |-> INVALID_PAGE_ID]

\* TablePage::GetNumTuples
GetNumTuples(pg) == Len(pg.tuples)

RECURSIVE SumSizes(_)
SumSizes(ts) == IF ts = <<>> THEN 0 ELSE Head(ts).size + SumSizes(Tail(ts))

\* TablePage::GetNextTupleOffset(meta, tuple) != std::nullopt
Fits(pg, tup) == SumSizes(pg.tuples) + tup.size <= PageCap

\* TablePage::InsertTuple writing every tuple into the first slot
PageInsertTuple_FirstSlot(pg, tup) == [pg EXCEPT !.tuples = <<tup>>]

\* TablePage::InsertTuple: the tuple takes the next slot of the page
PageInsertTuple(pg, tup) == [pg EXCEPT !.tuples = Append(@, tup)]

NoTuple == [id |-> 0, size |-> 0, del |-> FALSE]

\* BUSTUB_ENSURE(cond, msg) with cond false: the process is terminated
EnsureFailed(msg) ==
  /\ alive' = FALSE
  /\ termReason' = msg

----------------------------------------------------------------------------
(* TableHeap::InsertTuple, one action per step.                            *)

\* line 62-63: lock latch_, fetch the page last_page_id_ names
InsertTuple_Lock(t, size, del) ==
  /\ alive /\ w_pc[t] = "idle" /\ nextId <= MaxInserts
  /\ latch_ = NoThread
  /\ latch_' = t
  /\ w_tuple' = [w_tuple EXCEPT ![t] = [id |-> nextId, size |-> size, del |-> del]]
  /\ nextId' = nextId + 1
  /\ w_page' = [w_page EXCEPT ![t] = last_page_id]
  /\ w_ret' = [w_ret EXCEPT ![t] = NoRID]
  /\ w_pc' = [w_pc EXCEPT ![t] = "wlatch"]
  /\ UNCHANGED <<subsysVars, pages, numPages, first_page_id, last_page_id, wlatch, procVars, w_npg, hist, queryVars>>

\* line 64: page_guard->WLatch()
InsertTuple_WLatch(t) ==
  /\ alive /\ w_pc[t] = "wlatch"
  /\ wlatch[w_page[t]] = NoThread
  /\ wlatch' = [wlatch EXCEPT ![w_page[t]] = t]
  /\ w_pc' = [w_pc EXCEPT ![t] = "loop"]
  /\ UNCHANGED <<subsysVars, pages, numPages, first_page_id, last_page_id, latch_, procVars,
                 nextId, w_tuple, w_page, w_npg, w_ret, hist, queryVars>>

\* line 72: the page is empty and still cannot take the tuple
InsertTuple_TooLarge(t) ==
  /\ alive /\ w_pc[t] = "loop"
  /\ ~Fits(pages[w_page[t]], w_tuple[t])
  /\ GetNumTuples(pages[w_page[t]]) = 0
  /\ EnsureFailed("tuple is too large, cannot insert")
  /\ w_pc' = [w_pc EXCEPT ![t] = "terminated"]
  /\ UNCHANGED <<subsysVars, heapVars, NDEBUG, nextId, w_tuple, w_page, w_npg, w_ret, hist, queryVars>>

\* line 75-77: NewPage reports INVALID_PAGE_ID
InsertTuple_NoPage(t) ==
  /\ alive /\ w_pc[t] = "loop"
  /\ ~Fits(pages[w_page[t]], w_tuple[t])
  /\ GetNumTuples(pages[w_page[t]]) # 0
  /\ numPages = MaxPages
  /\ EnsureFailed("cannot allocate page")
  /\ w_pc' = [w_pc EXCEPT ![t] = "terminated"]
  /\ UNCHANGED <<subsysVars, heapVars, NDEBUG, nextId, w_tuple, w_page, w_npg, w_ret, hist, queryVars>>

\* line 75-82: allocate a page, link it behind the latched page, Init it
InsertTuple_NewPage(t) ==
  /\ alive /\ w_pc[t] = "loop"
  /\ ~Fits(pages[w_page[t]], w_tuple[t])
  /\ GetNumTuples(pages[w_page[t]]) # 0
  /\ numPages < MaxPages
  /\ LET next_page_id == numPages IN
       /\ numPages' = numPages + 1
       /\ pages' = [pages EXCEPT ![w_page[t]].next = next_page_id,
                                 ![next_page_id] = EmptyPage]
       /\ w_npg' = [w_npg EXCEPT ![t] = next_page_id]
  /\ w_pc' = [w_pc EXCEPT ![t] = "unlatch_old"]
  /\ UNCHANGED <<subsysVars, first_page_id, last_page_id, latch_, wlatch, procVars,
                 nextId, w_tuple, w_page, w_ret, hist, queryVars>>

\* InsertTuple going on to the new page with the old page still latched
InsertTuple_UnlatchOld_Kept(t) ==
  /\ alive /\ w_pc[t] = "unlatch_old"
  /\ w_pc' = [w_pc EXCEPT ![t] = "latch_new"]
  /\ UNCHANGED <<subsysVars, pages, numPages, first_page_id, last_page_id, latch_, wlatch, procVars,
                 nextId, w_tuple, w_page, w_npg, w_ret, hist, queryVars>>

\* line 84: page_guard->WUnlatch()
InsertTuple_UnlatchOld(t) ==
  /\ alive /\ w_pc[t] = "unlatch_old"
  /\ wlatch' = [wlatch EXCEPT ![w_page[t]] = NoThread]
  /\ w_pc' = [w_pc EXCEPT ![t] = "latch_new"]
  /\ UNCHANGED <<subsysVars, pages, numPages, first_page_id, last_page_id, latch_, procVars,
                 nextId, w_tuple, w_page, w_npg, w_ret, hist, queryVars>>

\* line 87-90: npg->WLatch(); last_page_id_ = next_page_id; page_guard = npg
InsertTuple_LatchNew(t) ==
  /\ alive /\ w_pc[t] = "latch_new"
  /\ wlatch[w_npg[t]] = NoThread
  /\ wlatch' = [wlatch EXCEPT ![w_npg[t]] = t]
  /\ last_page_id' = w_npg[t]
  /\ w_page' = [w_page EXCEPT ![t] = w_npg[t]]
  /\ w_pc' = [w_pc EXCEPT ![t] = "loop"]
  /\ UNCHANGED <<subsysVars, pages, numPages, first_page_id, latch_, procVars,
                 nextId, w_tuple, w_npg, w_ret, hist, queryVars>>

\* line 68-69, 92-98: the tuple fits in the latched page: leave the loop,
\* read last_page_id_, page->InsertTuple, guard.unlock()
InsertTuple_Write(t) ==
  /\ alive /\ w_pc[t] = "loop"
  /\ Fits(pages[w_page[t]], w_tuple[t])
  /\ LET slot_id == GetNumTuples(pages[w_page[t]]) IN
       /\ pages' = [pages EXCEPT ![w_page[t]] = PageInsertTuple(@, w_tuple[t])]
       /\ w_ret' = [w_ret EXCEPT ![t] = RID(last_page_id, slot_id)]
  /\ latch_' = NoThread
  /\ w_pc' = [w_pc EXCEPT ![t] = "unlatch"]
  /\ UNCHANGED <<subsysVars, numPages, first_page_id, last_page_id, wlatch, procVars,
                 nextId, w_tuple, w_page, w_npg, hist, queryVars>>

\* line 108-110: page_guard->WUnlatch(); return RID(last_page_id, slot_id)
InsertTuple_Return(t) ==
  /\ alive /\ w_pc[t] = "unlatch"
  /\ wlatch' = [wlatch EXCEPT ![w_page[t]] = NoThread]
  /\ hist' = hist \cup {[rid |-> w_ret[t], id |-> w_tuple[t].id]}
  /\ w_pc' = [w_pc EXCEPT ![t] = "idle"]
  /\ w_tuple' = [w_tuple EXCEPT ![t] = NoTuple]
  /\ w_page' = [w_page EXCEPT ![t] = INVALID_PAGE_ID]
  /\ w_npg' = [w_npg EXCEPT ![t] = INVALID_PAGE_ID]
  /\ UNCHANGED <<subsysVars, pages, numPages, first_page_id, last_page_id, latch_, procVars,
                 nextId, w_ret, queryVars>>

InsertTuple(t) ==
  \/ \E k \in TupleKinds : InsertTuple_Lock(t, k[1], k[2])
  \/ InsertTuple_WLatch(t)
  \/ InsertTuple_TooLarge(t)
  \/ InsertTuple_NoPage(t)
  \/ InsertTuple_NewPage(t)
  \/ InsertTuple_UnlatchOld(t)
  \/ InsertTuple_LatchNew(t)
  \/ InsertTuple_Write(t)
  \/ InsertTuple_Return(t)

----------------------------------------------------------------------------
(* TableHeap reads and TableIterator.                                      *)

\* the slot rid names exists in the heap
SlotExists(rid) ==
  /\ GetPageId(rid) \in 0 .. (numPages - 1)
  /\ GetSlotNum(rid) < GetNumTuples(pages[GetPageId(rid)])

ExistingRIDs ==
  {r \in PageIds \X (0 .. MaxInserts) : SlotExists(r)}

\* TablePage::GetTuple(rid): the (meta, tuple) stored in the slot
PageGetTuple(pg, rid) ==
  LET t == pg.tuples[GetSlotNum(rid) + 1] IN
    [meta |-> [is_deleted_ |-> t.del], tuple |-> [id |-> t.id, rid_ |-> InvalidRID]]

\* mutant: GetTuple without "tuple.rid_ = rid"
TableHeap_GetTuple_NoRid(rid) ==
  PageGetTuple(pages[GetPageId(rid)], rid)

\* TableHeap::GetTuple(rid): fetch the page, read the slot, set tuple.rid_
TableHeap_GetTuple(rid) ==
  LET mt == PageGetTuple(pages[GetPageId(rid)], rid) IN
    [meta |-> mt.meta, tuple |-> [mt.tuple EXCEPT !.rid_ = rid]]

\* TableIterator::IsEnd
IsEnd(rid) == GetPageId(rid) = INVALID_PAGE_ID

\* TableIterator::TableIterator(table_heap, rid, stop_at_rid): the rid_ it keeps
TableIterator_Ctor(rid) ==
  IF GetPageId(rid) = INVALID_PAGE_ID THEN InvalidRID
  ELSE IF GetSlotNum(rid) >= GetNumTuples(pages[GetPageId(rid)]) THEN InvalidRID
  ELSE rid

\* the condition of the BUSTUB_ASSERT in TableIterator::operator++
InRange(rid, stop) ==
  stop[1] # INVALID_PAGE_ID =>
    \/ GetPageId(rid) < GetPageId(stop)
    \/ (GetPageId(rid) = GetPageId(stop) /\ GetSlotNum(rid) + 1 <= GetSlotNum(stop))

\* TableIterator::operator++: the rid_ after the increment
TableIterator_Inc(rid, stop) ==
  LET page == pages[GetPageId(rid)]
      next_tuple_id == GetSlotNum(rid) + 1
  IN  IF RID(GetPageId(rid), next_tuple_id) = stop THEN InvalidRID
      ELSE IF next_tuple_id < GetNumTuples(page) THEN RID(GetPageId(rid), next_tuple_id)
      ELSE RID(page.next, 0)

----------------------------------------------------------------------------
(* The caller of the root executor: ExecutionEngine::Execute, or a parent  *)
(* operator that keeps pulling after its child reported exhaustion.        *)

Plans == {"SeqScan", "Delete", "Child"}
JoinTypes == {"INNER", "LEFT", "OUTER"}
LeftInputs == {<<1, 2>>}
RightInputs == {<<>>, <<2, 1>>}
NoJoin == [type |-> "none", left |-> <<>>, right |-> <<>>]

\* the catch clause of Execute: catch (const ExecutionException &)
Execute_Catches(ex) == ex = "ExecutionException"

\* mutant: the handler leaves the partial result in place
Execute_OnCatch_Keep(rs) == rs

\* the handler of Execute: result_set->clear()
Execute_OnCatch(rs) == <<>>

\* mutant: rows are put in front of the earlier ones
PollExecutor_Push_Front(rs, tuple) == <<tuple>> \o rs

\* PollExecutor: result_set->push_back(tuple)
PollExecutor_Push(rs, tuple) == Append(rs, tuple)

\* Next returned true with a row
DriverRow(row) ==
  /\ produced' = Append(produced, row)
  /\ result_set' = IF q_driver = "Execute" THEN PollExecutor_Push(result_set, row.tuple)
                   ELSE result_set
  /\ late_rows' = IF false_count > 0 THEN late_rows + 1 ELSE late_rows
  /\ q_pc' = "ready"
  /\ UNCHANGED <<q_ret, raised, false_count>>

\* Next returned false: PollExecutor leaves its loop, PerformChecks finds no
\* NestedLoopJoin check pair and Execute returns executor_succeeded = true
DriverFalse ==
  /\ false_count' = false_count + 1
  /\ IF q_driver = "Execute"
       THEN q_pc' = "returned" /\ q_ret' = "true"
       ELSE q_pc' = "ready" /\ UNCHANGED q_ret
  /\ UNCHANGED <<result_set, raised, produced, late_rows>>

\* Init or Next raised ex
DriverRaise(ex) ==
  /\ raised' = ex
  /\ IF q_driver = "Execute" /\ Execute_Catches(ex)
       THEN /\ q_pc' = "returned"
            /\ q_ret' = "false"
            /\ result_set' = Execute_OnCatch(result_set)
       ELSE /\ q_pc' = "propagated"
            /\ UNCHANGED <<q_ret, result_set>>
  /\ UNCHANGED <<produced, false_count, late_rows>>

\* the caller is about to call Next on the root executor
CanCallNext ==
  /\ alive /\ q_pc = "ready"
  /\ false_count <= MaxExtraNext

\* Execute (line 44-57), or a parent operator, takes a plan; CreateExecutor
\* builds the executor and Init is called next
Query_Start(driver, plan) ==
  /\ alive /\ q_pc = "idle"
  /\ q_driver' = driver
  /\ q_plan' = plan
  /\ q_pc' = "init"
  /\ UNCHANGED <<subsysVars, heapVars, procVars, writerVars, q_join, iterVars, result_set, q_ret,
                 raised, produced, false_count, late_rows, init_count, next_count>>

\* a caller that pulls from the DeleteExecutor without calling its Init
Query_StartNoInit ==
  /\ alive /\ q_pc = "idle"
  /\ q_driver' = "Parent"
  /\ q_plan' = "Delete"
  /\ q_pc' = "ready"
  /\ UNCHANGED <<subsysVars, heapVars, procVars, writerVars, q_join, iterVars, result_set, q_ret,
                 raised, produced, false_count, late_rows, init_count, next_count>>

----------------------------------------------------------------------------
(* SeqScanExecutor.                                                        *)

\* MakeIterator reading last_page_id_ without taking latch_
HeapMutexFree_NotTaken == TRUE

\* std::unique_lock<std::mutex> guard(latch_) can be taken: no thread holds latch_
HeapMutexFree == latch_ = NoThread

\* SeqScanExecutor::Init -> MakeIterator line 145-147: lock latch_, read
\* last_page_id_, unlock
MakeIterator_ReadLast ==
  /\ alive /\ q_pc = "init" /\ q_plan = "SeqScan"
  /\ HeapMutexFree
  /\ mk_last' = last_page_id
  /\ init_count' = init_count + 1
  /\ q_pc' = "mk_num"
  /\ UNCHANGED <<subsysVars, heapVars, procVars, writerVars, q_driver, q_plan, q_join, it_rid, it_stop,
                 mk_num, q_cur, snap_made, result_set, q_ret, raised, produced, false_count,
                 late_rows, next_count>>

\* MakeIterator line 149-151: FetchPage(last_page_id), page->GetNumTuples(),
\* no page latch taken
MakeIterator_ReadNum ==
  /\ alive /\ q_pc = "mk_num"
  /\ mk_num' = GetNumTuples(pages[mk_last])
  /\ q_pc' = "mk_ctor"
  /\ UNCHANGED <<subsysVars, heapVars, procVars, writerVars, q_driver, q_plan, q_join, it_rid, it_stop,
                 mk_last, q_cur, snap_made, result_set, q_ret, raised, produced,
                 false_count, late_rows, init_count, next_count>>

\* MakeIterator line 152: construct TableIterator{this, {first_page_id_, 0},
\* {last_page_id, num_tuples}}
MakeIterator_Construct ==
  /\ alive /\ q_pc = "mk_ctor"
  /\ it_rid' = TableIterator_Ctor(RID(first_page_id, 0))
  /\ it_stop' = RID(mk_last, mk_num)
  /\ snap_made' = ExistingRIDs
  /\ q_pc' = "ready"
  /\ UNCHANGED <<subsysVars, heapVars, procVars, writerVars, q_driver, q_plan, q_join, mk_last, mk_num,
                 q_cur, result_set, q_ret, raised, produced, false_count,
                 late_rows, init_count, next_count>>

\* mutant: an exhausted scan rewinds its iterator to the first slot
SeqScan_AtEnd_Rewind(rid) == RID(0, 0)

\* SeqScanExecutor::Next line 36-38 leaves iter_ as it is
SeqScan_AtEnd(rid) == rid

\* SeqScanExecutor::Next line 36-38: the iterator is at its end, return false
SeqScan_Next_End ==
  /\ CanCallNext /\ q_plan = "SeqScan"
  /\ IsEnd(it_rid)
  /\ it_rid' = SeqScan_AtEnd(it_rid)
  /\ next_count' = next_count + 1
  /\ DriverFalse
  /\ UNCHANGED <<subsysVars, heapVars, procVars, writerVars, q_driver, q_plan, q_join, it_stop,
                 mk_last, mk_num, q_cur, snap_made, init_count>>

\* SeqScanExecutor::Next line 40-42: iter_->GetTuple(), iter_->GetRID()
SeqScan_Next_GetTuple ==
  /\ CanCallNext /\ q_plan = "SeqScan"
  /\ ~IsEnd(it_rid)
  /\ SlotExists(it_rid)
  /\ q_cur' = TableHeap_GetTuple(it_rid)
  /\ next_count' = next_count + 1
  /\ q_pc' = "scan_inc"
  /\ UNCHANGED <<subsysVars, heapVars, procVars, writerVars, q_driver, q_plan, q_join, it_rid, it_stop,
                 mk_last, mk_num, snap_made, result_set, q_ret, raised, produced,
                 false_count, late_rows, init_count>>

\* SeqScanExecutor::Next line 43-44: ++(*iter_), return true
SeqScan_Next_Inc ==
  /\ alive /\ q_pc = "scan_inc"
  /\ IF InRange(it_rid, it_stop) THEN UNCHANGED NDEBUG
     ELSE NDEBUG # "off" /\ NDEBUG' = "on"
  /\ it_rid' = TableIterator_Inc(it_rid, it_stop)
  /\ DriverRow([tuple |-> q_cur.tuple, rid |-> it_rid, meta |-> q_cur.meta])
  /\ UNCHANGED <<subsysVars, heapVars, alive, termReason, writerVars, q_driver, q_plan, q_join, it_stop,
                 mk_last, mk_num, q_cur, snap_made, init_count, next_count>>

\* the BUSTUB_ASSERT of operator++ fails in a build that keeps assert()
SeqScan_Next_AssertFail ==
  /\ alive /\ q_pc = "scan_inc"
  /\ ~InRange(it_rid, it_stop) /\ NDEBUG # "on"
  /\ NDEBUG' = "off"
  /\ alive' = FALSE
  /\ termReason' = "iterate out of bound"
  /\ q_pc' = "aborted"
  /\ UNCHANGED <<subsysVars, heapVars, writerVars, q_driver, q_plan, q_join, iterVars,
                 result_set, q_ret, raised, produced, false_count, late_rows,
                 init_count, next_count>>

\* iter_->GetTuple() on a slot the page does not hold: TablePage::GetTuple
\* rejects the slot number
SeqScan_Next_NoSlot ==
  /\ CanCallNext /\ q_plan = "SeqScan"
  /\ ~IsEnd(it_rid)
  /\ ~SlotExists(it_rid)
  /\ next_count' = next_count + 1
  /\ DriverRaise("Exception")
  /\ UNCHANGED <<subsysVars, heapVars, procVars, writerVars, q_driver, q_plan, q_join, iterVars,
                 init_count>>

----------------------------------------------------------------------------
(* DeleteExecutor.                                                         *)

\* DeleteExecutor::Init: throw NotImplementedException
DeleteExecutor_Init ==
  /\ alive /\ q_pc = "init" /\ q_plan = "Delete"
  /\ init_count' = init_count + 1
  /\ DriverRaise("NotImplementedException")
  /\ UNCHANGED <<subsysVars, heapVars, procVars, writerVars, q_driver, q_plan, q_join, iterVars,
                 next_count>>

\* DeleteExecutor::Next: return false
DeleteExecutor_Next ==
  /\ CanCallNext /\ q_plan = "Delete"
  /\ next_count' = next_count + 1
  /\ DriverFalse
  /\ UNCHANGED <<subsysVars, heapVars, procVars, writerVars, q_driver, q_plan, q_join, iterVars,
                 init_count>>

----------------------------------------------------------------------------
(* NestedLoopJoinExecutor.                                                 *)

\* the members after NestedLoopJoinExecutor's constructor: its initialiser
\* list is AbstractExecutor(exec_ctx) alone, so the child executors passed in
\* are not kept and left_executor_ / right_executor_ hold no executor
NestedLoopJoinExecutor_Members(left_executor, right_executor) ==
  [left_executor_ |-> "nullptr", right_executor_ |-> "nullptr"]

\* NestedLoopJoinExecutor's constructor accepts LEFT and INNER only
JoinTypeSupported(type) == type = "LEFT" \/ type = "INNER"

\* CreateExecutor builds a NestedLoopJoinExecutor of a supported join type
NestedLoopJoin_Construct(driver, type, left, right) ==
  /\ alive /\ q_pc = "idle"
  /\ JoinTypeSupported(type)
  /\ q_driver' = driver
  /\ q_plan' = "NestedLoopJoin"
  /\ q_join' = [type |-> type, left |-> left, right |-> right]
  /\ q_pc' = "init"
  /\ UNCHANGED <<subsysVars, heapVars, procVars, writerVars, iterVars, result_set, q_ret,
                 raised, produced, false_count, late_rows, init_count, next_count>>

\* the constructor throws NotImplementedException for any other join type;
\* CreateExecutor is called outside Execute's try block
NestedLoopJoin_Unsupported(driver, type, left, right) ==
  /\ alive /\ q_pc = "idle"
  /\ ~JoinTypeSupported(type)
  /\ q_driver' = driver
  /\ q_plan' = "NestedLoopJoin"
  /\ q_join' = [type |-> type, left |-> left, right |-> right]
  /\ q_pc' = "propagated"
  /\ raised' = "NotImplementedException"
  /\ UNCHANGED <<subsysVars, heapVars, procVars, writerVars, iterVars, result_set, q_ret,
                 produced, false_count, late_rows, init_count, next_count>>

\* NestedLoopJoinExecutor::Init line 18: left_executor_->Init() through a
\* unique_ptr that holds nothing; the process dies of the null dereference
NestedLoopJoin_Init ==
  /\ alive /\ q_pc = "init" /\ q_plan = "NestedLoopJoin"
  /\ NestedLoopJoinExecutor_Members(q_join.left, q_join.right).left_executor_ = "nullptr"
  /\ init_count' = init_count + 1
  /\ alive' = FALSE
  /\ termReason' = "null dereference"
  /\ q_pc' = "crashed"
  /\ UNCHANGED <<subsysVars, heapVars, NDEBUG, writerVars, q_driver, q_plan, q_join, iterVars,
                 result_set, q_ret, raised, produced, false_count, late_rows, next_count>>

\* NestedLoopJoinExecutor::Init line 18-26 over InitCheck children: the right
\* child is initialised once and drained into right_tuples_
InitCheck_RightInitCount(join) == 1

\* NestedLoopJoinExecutor::Next line 31 over a full drain: the left child's
\* Next is called once for every left row and once more for the final false
InitCheck_LeftNextCount(join) == Len(join.left) + 1

\* ExecutionEngine::PerformChecks: the condition of its assertion
PerformChecks(join) == InitCheck_RightInitCount(join) + 1 >= InitCheck_LeftNextCount(join)

----------------------------------------------------------------------------
(* Any other executor: what its Init and Next may do, as the caller sees   *)
(* it.  It produces at most MaxRows rows, may raise from Init or from any  *)
(* Next call, and keeps returning false once it has returned false.        *)

Exceptions == {"ExecutionException", "NotImplementedException"}

ChildRow(k) == [tuple |-> [id |-> k, rid_ |-> InvalidRID], rid |-> InvalidRID,
                meta |-> [is_deleted_ |-> FALSE]]

Child_Init_Ok ==
  /\ alive /\ q_pc = "init" /\ q_plan = "Child"
  /\ init_count' = init_count + 1
  /\ q_pc' = "ready"
  /\ UNCHANGED <<subsysVars, heapVars, procVars, writerVars, q_driver, q_plan, q_join, iterVars,
                 result_set, q_ret, raised, produced, false_count, late_rows, next_count>>

Child_Init_Raise(ex) ==
  /\ alive /\ q_pc = "init" /\ q_plan = "Child"
  /\ init_count' = init_count + 1
  /\ DriverRaise(ex)
  /\ UNCHANGED <<subsysVars, heapVars, procVars, writerVars, q_driver, q_plan, q_join, iterVars,
                 next_count>>

Child_Next_Row ==
  /\ CanCallNext /\ q_plan = "Child"
  /\ false_count = 0 /\ Len(produced) < MaxRows
  /\ next_count' = next_count + 1
  /\ DriverRow(ChildRow(Len(produced) + 1))
  /\ UNCHANGED <<subsysVars, heapVars, procVars, writerVars, q_driver, q_plan, q_join, iterVars,
                 init_count>>

Child_Next_False ==
  /\ CanCallNext /\ q_plan = "Child"
  /\ next_count' = next_count + 1
  /\ DriverFalse
  /\ UNCHANGED <<subsysVars, heapVars, procVars, writerVars, q_driver, q_plan, q_join, iterVars,
                 init_count>>

Child_Next_Raise(ex) ==
  /\ CanCallNext /\ q_plan = "Child"
  /\ false_count = 0
  /\ next_count' = next_count + 1
  /\ DriverRaise(ex)
  /\ UNCHANGED <<subsysVars, heapVars, procVars, writerVars, q_driver, q_plan, q_join, iterVars,
                 init_count>>

----------------------------------------------------------------------------
(* ComputeDistance and the distance cache.                                 *)
(*                                                                         *)
(* Vectors hold small naturals, so every sum and product of the kernel is  *)
(* exact in double arithmetic; a distance is kept in a normal form         *)
(* [k, a, b] that tells two distances apart exactly when they differ as    *)
(* real numbers: an integer a, a fraction a / b, an irrational sqrt(a),    *)
(* an irrational 1 - a / sqrt(b), or the result of a division by zero.     *)

\* doubles one __m256d holds
Lanes == 4

\* the vectors offered to ComputeDistance: dimensions 1, 2 and Lanes
VecPool == {<<1>>, <<MaxElem>>, <<1, MaxElem>>, <<MaxElem, 1>>,
            <<1, 0, MaxElem, 1>>, <<MaxElem, 1, 0, 1>>}

\* enum class VectorExpressionType
VectorExpressionType == {"L2Dist", "InnerProduct", "CosineSimilarity"}

\* what a read past the end of a vector's buffer may find
Garbage == 0 .. MaxGarbage

IntV(n) == [k |-> "int", a |-> n, b |-> 1]

IsSquare(n) == n >= 0 /\ \E r \in 0 .. n : r * r = n
Root(n) == CHOOSE r \in 0 .. n : r * r = n

Abs(n) == IF n < 0 THEN 0 - n ELSE n

RECURSIVE Gcd(_, _)
Gcd(m, n) == IF n = 0 THEN m ELSE Gcd(n, m % n)

\* the fraction n / d, d > 0
FracV(n, d) ==
  LET g == Gcd(Abs(n), d) IN
    IF d \div g = 1 THEN IntV(n \div g)
    ELSE [k |-> "frac", a |-> n \div g, b |-> d \div g]

\* std::sqrt(n)
SqrtV(n) == IF IsSquare(n) THEN IntV(Root(n)) ELSE [k |-> "sqrt", a |-> n, b |-> 1]

\* 1.0 - dist / std::sqrt(p), with p = norma * normb
OneMinusCosV(dist, p) ==
  IF p = 0 THEN [k |-> (IF dist = 0 THEN "nan" ELSE "inf"), a |-> 0, b |-> 0]
  ELSE IF dist = 0 THEN IntV(1)
  ELSE IF IsSquare(p) THEN FracV(Root(p) - dist, Root(p))
  ELSE [k |-> "1-a/sqrt(b)", a |-> dist, b |-> p]

NoValue == [k |-> "none", a |-> 0, b |-> 0]

\* v[i] for the 0-based index i; an index past the end reads g
At(v, i, g) == IF i < Len(v) THEN v[i + 1] ELSE g

\* for (i = from; i < to; i++) acc += x[i] * y[i]
RECURSIVE ScalarLoop(_, _, _, _, _)
ScalarLoop(x, y, from, to, g) ==
  IF from >= to THEN 0
  ELSE At(x, from, g) * At(y, from, g) + ScalarLoop(x, y, from + 1, to, g)

\* for (i = 0; i < sz; i += 4) sum_vec += load(&x[i]) * load(&y[i]); the four
\* lanes are added up afterwards
RECURSIVE SimdLoop(_, _, _, _, _)
SimdLoop(x, y, i, sz, g) ==
  IF i >= sz THEN 0
  ELSE ScalarLoop(x, y, i, i + Lanes, g) + SimdLoop(x, y, i + Lanes, sz, g)

\* the sum of x[i] * y[i] as the InnerProduct and CosineSimilarity branches
\* compute it: the AVX loop and then the loop over sz - sz % 4 .. sz - 1
SimdSum(x, y, sz, g) ==
  SimdLoop(x, y, 0, sz, g) + ScalarLoop(x, y, sz - (sz % Lanes), sz, g)

DotSum(simd, x, y, sz, g) ==
  IF simd THEN SimdSum(x, y, sz, g) ELSE ScalarLoop(x, y, 0, sz, g)

\* sum of (left[i] - right[i])^2: the same plain loop with SIMD and without
RECURSIVE L2Loop(_, _, _, _, _)
L2Loop(x, y, from, to, g) ==
  IF from >= to THEN 0
  ELSE (At(x, from, g) - At(y, from, g)) * (At(x, from, g) - At(y, from, g))
       + L2Loop(x, y, from + 1, to, g)

\* the switch of ComputeDistance (line 31-147): the value it returns when
\* nothing is found in the cache; sz = left.size()
Kernel(simd, left, right, dist_fn, g) ==
  LET sz == Len(left) IN
    CASE dist_fn = "L2Dist" -> SqrtV(L2Loop(left, right, 0, sz, g))
      [] dist_fn = "InnerProduct" -> IntV(0 - DotSum(simd, left, right, sz, g))
      [] dist_fn = "CosineSimilarity" ->
           OneMinusCosV(DotSum(simd, left, right, sz, g),
                        DotSum(simd, left, left, sz, g) * DotSum(simd, right, right, sz, g))

\* the AVX loop of this call loads lanes that lie past the vectors' end
ReadsPastEnd(simd, sz, dist_fn) ==
  simd /\ dist_fn # "L2Dist" /\ sz % Lanes # 0

\* the key ComputeDistance looks up and stores: std::make_pair(left, right)
CacheKey(left, right, dist_fn) == <<left, right>>

\* distance_cache[{left, right}] = v; distance_cache[{right, left}] = v
CacheStore(cache, left, right, dist_fn, v) ==
  LET new == {CacheKey(left, right, dist_fn), CacheKey(right, left, dist_fn)} IN
    [key \in DOMAIN cache \cup new |-> IF key \in new THEN v ELSE cache[key]]

NoCall == [left |-> <<>>, right |-> <<>>, dist_fn |-> "none", ret |-> NoValue]

\* bookkeeping of a call that is about to run
BeginCall(left, right, dist_fn) ==
  /\ alive /\ d_count < MaxCalls
  /\ d_count' = d_count + 1
  /\ d_call' = [left |-> left, right |-> right, dist_fn |-> dist_fn]
  /\ d_prev' = IF d_pc = "returned"
                 THEN [left |-> d_call.left, right |-> d_call.right,
                       dist_fn |-> d_call.dist_fn, ret |-> d_ret]
                 ELSE NoCall

\* line 23-29: the cache is enabled and holds the key: return iter->second
ComputeDistance_Hit(left, right, dist_fn) ==
  /\ BeginCall(left, right, dist_fn)
  /\ CACHE_ENABLED
  /\ CacheKey(left, right, dist_fn) \in DOMAIN distance_cache
  /\ d_ret' = distance_cache[CacheKey(left, right, dist_fn)]
  /\ d_pc' = "returned"
  /\ UNCHANGED <<CACHE_ENABLED, SIMD_ENABLED, distance_cache, procVars,
                 othersOfDist>>

Missed(left, right, dist_fn) ==
  ~(CACHE_ENABLED /\ CacheKey(left, right, dist_fn) \in DOMAIN distance_cache)

\* line 31-147, sizes equal: compute, store under both orders when the cache
\* is enabled, return
ComputeDistance_Compute(left, right, dist_fn, g) ==
  /\ BeginCall(left, right, dist_fn)
  /\ Missed(left, right, dist_fn)
  /\ Len(left) = Len(right)
  /\ LET v == Kernel(SIMD_ENABLED, left, right, dist_fn, g) IN
       /\ d_ret' = v
       /\ distance_cache' = IF CACHE_ENABLED
                              THEN CacheStore(distance_cache, left, right, dist_fn, v)
                              ELSE distance_cache
  /\ d_pc' = "returned"
  /\ UNCHANGED <<CACHE_ENABLED, SIMD_ENABLED, procVars, othersOfDist>>

\* line 32, sizes differ, in a build that keeps assert(): the process aborts
ComputeDistance_AssertFail(left, right, dist_fn) ==
  /\ BeginCall(left, right, dist_fn)
  /\ Missed(left, right, dist_fn)
  /\ Len(left) # Len(right)
  /\ NDEBUG # "on"
  /\ NDEBUG' = "off"
  /\ alive' = FALSE
  /\ termReason' = "vector length mismatched!"
  /\ d_pc' = "aborted"
  /\ UNCHANGED <<CACHE_ENABLED, SIMD_ENABLED, distance_cache, d_ret,
                 othersOfDist>>

\* line 32, sizes differ, in a build without assert(): the loops run over
\* left.size() elements and read right[i] wherever that lands
ComputeDistance_Unchecked(left, right, dist_fn, g) ==
  /\ BeginCall(left, right, dist_fn)
  /\ Missed(left, right, dist_fn)
  /\ Len(left) # Len(right)
  /\ NDEBUG # "off"
  /\ NDEBUG' = "on"
  /\ LET v == Kernel(SIMD_ENABLED, left, right, dist_fn, g) IN
       /\ d_ret' = v
       /\ distance_cache' = IF CACHE_ENABLED
                              THEN CacheStore(distance_cache, left, right, dist_fn, v)
                              ELSE distance_cache
  /\ d_pc' = "returned"
  /\ UNCHANGED <<CACHE_ENABLED, SIMD_ENABLED, alive, termReason,
                 othersOfDist>>

NextDist ==
  \E left \in VecPool, right \in VecPool, dist_fn \in VectorExpressionType :
    \/ ComputeDistance_Hit(left, right, dist_fn)
    \/ \E g \in Garbage : ComputeDistance_Compute(left, right, dist_fn, g)
    \/ ComputeDistance_AssertFail(left, right, dist_fn)
    \/ \E g \in Garbage : ComputeDistance_Unchecked(left, right, dist_fn, g)

----------------------------------------------------------------------------
(* Catalog: CreateTable, CreateIndex and CreateVectorIndex, each call run  *)
(* to its end before the next one starts (the callers serialise them);     *)
(* the rows of a table's heap are kept as the list of its slots.           *)

\* the names and settings the calls are offered
TableNames == {"t1", "t2"}
IndexNames == {"i1", "i2"}
IndexType == {"BPlusTreeIndex", "HashTableIndex", "STLOrderedIndex", "STLUnorderedIndex",
              "VectorIVFFlatIndex", "VectorHNSWIndex"}
IndexTypesOffered == {"HashTableIndex", "VectorHNSWIndex"}
DistanceFnsOffered == {"vector_l2_ops", "vector_manhattan_ops"}
\* the (key, is_deleted_) pairs of the rows put into the heaps
RowKinds == {<<1, FALSE>>, <<1, TRUE>>, <<2, FALSE>>}

\* map.emplace(k, v): a key the map already holds keeps its value
Emplace(map, k, v) ==
  IF k \in DOMAIN map THEN map
  ELSE [x \in DOMAIN map \cup {k} |-> IF x = k THEN v ELSE map[x]]

\* mutant: fetch_add that hands out the value and leaves the counter
FetchAdd_Stuck(counter) == counter

\* next_table_oid_.fetch_add(1), next_index_oid_.fetch_add(1): the counter after
FetchAdd(counter) == counter + 1

\* CreateTable line 137: the name is taken
TableExists(table_name) == table_name \in DOMAIN table_names_

\* CreateIndex line 227, CreateVectorIndex line 292: the table has this index
IndexExists(table_name, index_name) == index_name \in DOMAIN index_names_[table_name]

\* CreateIndex line 241-253: the index types it builds
CreateIndex_Supports(index_type) ==
  index_type \in {"HashTableIndex", "BPlusTreeIndex", "STLOrderedIndex", "STLUnorderedIndex"}

\* CreateVectorIndex line 307-315: the distance functions it knows
DistanceFnSupported(distance_fn) ==
  distance_fn \in {"vector_ip_ops", "vector_l2_ops", "vector_cosine_ops"}

\* CreateVectorIndex line 316-322: the index types it builds
CreateVectorIndex_Supports(index_type) ==
  index_type \in {"VectorHNSWIndex", "VectorIVFFlatIndex"}

\* Index::InsertEntry(key, rid) -> bool: an index holds one RID per key, and
\* an insert of a key it already holds fails and changes nothing
InsertEntry(entries, key, rid) ==
  IF \E e \in entries : e[1] = key THEN entries ELSE entries \cup {<<key, rid>>}

\* Index::ScanKey(key, &result)
ScanKey(entries, key) == {e[2] : e \in {x \in entries : x[1] = key}}

\* CreateIndex line 257-261: every slot of the heap, tombstoned or not, is
\* offered to InsertEntry in heap order; what InsertEntry returns is dropped
RECURSIVE PopulateFrom(_, _, _)
PopulateFrom(entries, rows, i) ==
  IF i > Len(rows) THEN entries
  ELSE PopulateFrom(InsertEntry(entries, rows[i].key, RID(0, i - 1)), rows, i + 1)

\* CreateVectorIndex line 327-332: BuildIndex over every (vector, RID) of the heap
BuildIndex(rows) == {<<rows[i].key, RID(0, i - 1)>> : i \in DOMAIN rows}

\* UNIMPLEMENTED(...) at line 252, 314, 321 is reached before fetch_add: the
\* counter after the throw
Catalog_AfterThrow(counter) == counter

\* bookkeeping of a call that is about to run
BeginDDL ==
  /\ alive /\ c_count < MaxDDL
  /\ c_count' = c_count + 1

\* CreateTable line 137-139
CreateTable_Exists(table_name) ==
  /\ BeginDDL
  /\ TableExists(table_name)
  /\ c_ret' = "NULL_TABLE_INFO"
  /\ UNCHANGED <<tables_, table_names_, index_names_, indexes_, next_table_oid_,
                 next_index_oid_, c_table_log, c_index_log>>
  /\ UNCHANGED othersOfCat

\* CreateTable line 142-165
CreateTable_Ok(table_name) ==
  /\ BeginDDL
  /\ ~TableExists(table_name)
  /\ LET table_oid == next_table_oid_ IN
       /\ next_table_oid_' = FetchAdd(next_table_oid_)
       /\ tables_' = Emplace(tables_, table_oid,
                             [name_ |-> table_name, oid_ |-> table_oid, rows |-> <<>>])
       /\ table_names_' = Emplace(table_names_, table_name, table_oid)
       /\ index_names_' = Emplace(index_names_, table_name, <<>>)
       /\ c_table_log' = Append(c_table_log, table_oid)
  /\ c_ret' = "TableInfo"
  /\ UNCHANGED <<indexes_, next_index_oid_, c_index_log>>
  /\ UNCHANGED othersOfCat

\* a DDL call that ends without touching the catalog
Refused(ret) ==
  /\ c_ret' = ret
  /\ UNCHANGED <<tables_, table_names_, index_names_, indexes_, next_table_oid_,
                 c_table_log, c_index_log>>
  /\ UNCHANGED othersOfCat

\* mutant: the early return placed after next_index_oid_.fetch_add(1)
EarlyReturn_OidTaken(ret) ==
  /\ Refused(ret)
  /\ next_index_oid_' = next_index_oid_ + 1

\* return NULL_INDEX_INFO at line 219, 229, 284, 294: before fetch_add (264, 335)
EarlyReturn(ret) ==
  /\ Refused(ret)
  /\ UNCHANGED next_index_oid_

\* CreateIndex line 218-220
CreateIndex_NoTable(index_name, table_name, index_type) ==
  /\ BeginDDL
  /\ ~TableExists(table_name)
  /\ EarlyReturn("NULL_INDEX_INFO")

\* CreateIndex line 226-230
CreateIndex_Exists(index_name, table_name, index_type) ==
  /\ BeginDDL
  /\ TableExists(table_name)
  /\ IndexExists(table_name, index_name)
  /\ EarlyReturn("NULL_INDEX_INFO")

\* CreateIndex line 241-253: UNIMPLEMENTED for any other index type
CreateIndex_Unimplemented(index_name, table_name, index_type) ==
  /\ BeginDDL
  /\ TableExists(table_name)
  /\ ~IndexExists(table_name, index_name)
  /\ ~CreateIndex_Supports(index_type)
  /\ Refused("UNIMPLEMENTED")
  /\ next_index_oid_' = Catalog_AfterThrow(next_index_oid_)

\* mutant: every operator class mapped to L2Dist
DistanceFnToType_AllL2(distance_fn) == "L2Dist"

\* CreateVectorIndex line 306-315: vty
DistanceFnToType(distance_fn) ==
  CASE distance_fn = "vector_ip_ops" -> "InnerProduct"
    [] distance_fn = "vector_l2_ops" -> "L2Dist"
    [] distance_fn = "vector_cosine_ops" -> "CosineSimilarity"
    [] OTHER -> "UNIMPLEMENTED"

\* the index is registered: line 264-273, 335-344
Register(index_name, table_name, index_type, vty, entries) ==
  LET index_oid == next_index_oid_ IN
    /\ next_index_oid_' = FetchAdd(next_index_oid_)
    /\ indexes_' = Emplace(indexes_, index_oid,
                           [name_ |-> index_name, table_name_ |-> table_name,
                            index_oid_ |-> index_oid, index_type_ |-> index_type,
                            vty |-> vty, entries |-> entries])
    /\ index_names_' = [index_names_ EXCEPT
                          ![table_name] = Emplace(@, index_name, index_oid)]
    /\ c_index_log' = Append(c_index_log, index_oid)
    /\ c_ret' = "IndexInfo"
    /\ UNCHANGED <<tables_, table_names_, next_table_oid_, c_table_log>>
    /\ UNCHANGED othersOfCat

\* CreateIndex line 233-275
CreateIndex_Ok(index_name, table_name, index_type) ==
  /\ BeginDDL
  /\ TableExists(table_name)
  /\ ~IndexExists(table_name, index_name)
  /\ CreateIndex_Supports(index_type)
  /\ Register(index_name, table_name, index_type, "none",
              PopulateFrom({}, tables_[table_names_[table_name]].rows, 1))

\* CreateVectorIndex line 283-285
CreateVectorIndex_NoTable(index_name, table_name, distance_fn, index_type) ==
  /\ BeginDDL
  /\ ~TableExists(table_name)
  /\ EarlyReturn("NULL_INDEX_INFO")

\* CreateVectorIndex line 291-295
CreateVectorIndex_Exists(index_name, table_name, distance_fn, index_type) ==
  /\ BeginDDL
  /\ TableExists(table_name)
  /\ IndexExists(table_name, index_name)
  /\ EarlyReturn("NULL_INDEX_INFO")

\* CreateVectorIndex line 307-322: UNIMPLEMENTED for an unknown distance
\* function, then for an index type that is not a vector index
CreateVectorIndex_Unimplemented(index_name, table_name, distance_fn, index_type) ==
  /\ BeginDDL
  /\ TableExists(table_name)
  /\ ~IndexExists(table_name, index_name)
  /\ ~DistanceFnSupported(distance_fn) \/ ~CreateVectorIndex_Supports(index_type)
  /\ Refused("UNIMPLEMENTED")
  /\ next_index_oid_' = Catalog_AfterThrow(next_index_oid_)

\* CreateVectorIndex line 298-346
CreateVectorIndex_Ok(index_name, table_name, distance_fn, index_type) ==
  /\ BeginDDL
  /\ TableExists(table_name)
  /\ ~IndexExists(table_name, index_name)
  /\ DistanceFnSupported(distance_fn)
  /\ CreateVectorIndex_Supports(index_type)
  /\ Register(index_name, table_name, index_type, DistanceFnToType(distance_fn),
              BuildIndex(tables_[table_names_[table_name]].rows))

\* the indexes of a table that are not vector indexes
KeyIndexesOf(table_name) ==
  {o \in DOMAIN indexes_ : /\ indexes_[o].table_name_ = table_name
                           /\ CreateIndex_Supports(indexes_[o].index_type_)}

RECURSIVE SumRows(_)
SumRows(oids) ==
  IF oids = {} THEN 0
  ELSE LET o == CHOOSE x \in oids : TRUE IN Len(tables_[o].rows) + SumRows(oids \ {o})

\* the rows all heaps hold
TotalRows == SumRows(DOMAIN tables_)

\* an insert statement puts one row into the heap of a table and then into
\* every index of the table, dropping what InsertEntry returns
InsertRow(table_name, key, is_deleted_) ==
  /\ alive
  /\ TableExists(table_name)
  /\ LET oid == table_names_[table_name]
         rid == RID(0, Len(tables_[oid].rows))
     IN  /\ TotalRows < MaxHeapRows
         /\ tables_' = [tables_ EXCEPT ![oid].rows =
                          Append(@, [key |-> key, is_deleted_ |-> is_deleted_])]
         /\ indexes_' = [o \in DOMAIN indexes_ |->
                           IF o \in KeyIndexesOf(table_name)
                             THEN [indexes_[o] EXCEPT !.entries = InsertEntry(@, key, rid)]
                             ELSE indexes_[o]]
  /\ UNCHANGED <<table_names_, index_names_, next_table_oid_, next_index_oid_,
                 c_ret, c_count, c_table_log, c_index_log>>
  /\ UNCHANGED othersOfCat

NextCat ==
  \/ \E table_name \in TableNames :
       \/ CreateTable_Exists(table_name)
       \/ CreateTable_Ok(table_name)
       \/ \E k \in RowKinds : InsertRow(table_name, k[1], k[2])
  \/ \E index_name \in IndexNames, table_name \in TableNames, index_type \in IndexTypesOffered :
       \/ CreateIndex_NoTable(index_name, table_name, index_type)
       \/ CreateIndex_Exists(index_name, table_name, index_type)
       \/ CreateIndex_Unimplemented(index_name, table_name, index_type)
       \/ CreateIndex_Ok(index_name, table_name, index_type)
       \/ \E distance_fn \in DistanceFnsOffered :
            \/ CreateVectorIndex_NoTable(index_name, table_name, distance_fn, index_type)
            \/ CreateVectorIndex_Exists(index_name, table_name, distance_fn, index_type)
            \/ CreateVectorIndex_Unimplemented(index_name, table_name, distance_fn, index_type)
            \/ CreateVectorIndex_Ok(index_name, table_name, distance_fn, index_type)

----------------------------------------------------------------------------
(* Plan trees and the optimizer rules (abstract_plan.h, projection_plan.h, *)
(* filter_plan.h, merge_projection.cpp).                                   *)

\* most projections stacked over a scan in a planned query
MaxStack == 2
\* most optimizer passes applied to one plan
MaxPasses == 2
\* largest LIMIT of a planned query
MaxLimit == 2

\* Column(name, type)
Column(name, type) == [name |-> name, type |-> type]

\* CREATE TABLE t1(v1 VECTOR(3), v2 integer); t2 has two vector columns
TableSchema(table) ==
  IF table = "t1" THEN <<Column("v1", "VECTOR"), Column("v2", "INTEGER")>>
                  ELSE <<Column("a", "VECTOR"), Column("b", "VECTOR")>>

\* the rows of the two tables; a vector value is written as its one coordinate
TableRows(table) ==
  IF table = "t1" THEN << <<1, 5>>, <<3, 5>>, <<2, 7>> >>
                  ELSE << <<3, 1>>, <<1, 3>>, <<2, 2>> >>

\* an expression tree node
Expression(kind, tuple_idx, col_idx, ret_type, val, expr_type, children) ==
  [kind |-> kind, tuple_idx_ |-> tuple_idx, col_idx_ |-> col_idx, ret_type_ |-> ret_type,
   val_ |-> val, expr_type_ |-> expr_type, children_ |-> children]

\* std::make_shared<ColumnValueExpression>(tuple_idx, col_idx, col_type)
ColumnValueExpression(tuple_idx, col_idx, ret_type) ==
  Expression("ColumnValue", tuple_idx, col_idx, ret_type, 0, "", <<>>)

\* std::make_shared<ConstantValueExpression>(val)
ConstantValueExpression(val, ret_type) ==
  Expression("Constant", 0, 0, ret_type, val, "", <<>>)

\* VectorExpression(expr_type, left, right)
VectorExpression(expr_type, left, right) ==
  Expression("Vector", 0, 0, "DECIMAL", 0, expr_type, <<left, right>>)

\* ComparisonExpression(left, right, ComparisonType::Equal)
ComparisonExpression(left, right) ==
  Expression("Comparison", 0, 0, "BOOLEAN", 0, "Equal", <<left, right>>)

\* AbstractPlanNode(output_schema, children) with the payload of the subclass
PlanNode(type, output_schema, children, expressions, table, limit, order_by, index) ==
  [type |-> type, output_schema_ |-> output_schema, children_ |-> children,
   expressions_ |-> expressions, table_ |-> table, limit_ |-> limit,
   order_by_ |-> order_by, index_name_ |-> index]

\* no plan
NoPlan == PlanNode("none", <<>>, <<>>, <<>>, "", 0, "", "")

\* PlanTableRef: a base table becomes a SeqScan with the table's schema
SeqScanPlanNode(table) ==
  PlanNode("SeqScan", TableSchema(table), <<>>, <<>>, table, 0, "", "")

\* ProjectionPlanNode(output, expressions, child)
ProjectionPlanNode(output, expressions, child) ==
  PlanNode("Projection", output, <<child>>, expressions, "", 0, "", "")

\* FilterPlanNode(output, predicate, child)
FilterPlanNode(output, predicate, child) ==
  PlanNode("Filter", output, <<child>>, <<predicate>>, "", 0, "", "")

\* SortPlanNode(output, child, order_bys) with one order-by
SortPlanNode(output, child, order_by, expr) ==
  PlanNode("Sort", output, <<child>>, <<expr>>, "", 0, order_by, "")

\* LimitPlanNode(output, child, limit)
LimitPlanNode(output, child, limit) ==
  PlanNode("Limit", output, <<child>>, <<>>, "", limit, "", "")

\* VectorIndexScanPlanNode(output, table, index, base_vector, limit)
VectorIndexScanPlanNode(output, table, index, base_vector, limit) ==
  PlanNode("VectorIndexScan", output, <<>>, <<base_vector>>, table, limit, "", index)

\* ProjectionPlanNode::InferProjectionSchema: one column per expression, of its type
InferProjectionSchema(expressions) ==
  [i \in 1 .. Len(expressions) |-> Column("<unnamed>", expressions[i].ret_type_)]

\* ProjectionPlanNode::RenameSchema
RenameSchema(schema, col_names) ==
  [i \in 1 .. Len(schema) |-> Column(col_names[i], schema[i].type)]

\* PlanSelect: the projection of a select list
PlanSelect_Projection(exprs, column_names, plan) ==
  ProjectionPlanNode(RenameSchema(InferProjectionSchema(exprs), column_names), exprs, plan)

\* PlanSelect: WHERE wraps the plan in a Filter with the plan's schema
PlanSelect_Filter(expr, plan) == FilterPlanNode(plan.output_schema_, expr, plan)

\* PlanSelect: ORDER BY, then LIMIT, each with the schema of the plan below
PlanSelect_SortLimit(order_by, expr, limit, plan) ==
  LimitPlanNode(plan.output_schema_,
                SortPlanNode(plan.output_schema_, plan, order_by, expr), limit)

\* the column reference to column col_idx of a plan's output
ColumnOf(plan, col_idx) ==
  ColumnValueExpression(0, col_idx, plan.output_schema_[col_idx + 1].type)

\* the names of a plan's output columns, and the names under the alias s
NamesOf(plan) == [i \in 1 .. Len(plan.output_schema_) |-> plan.output_schema_[i].name]
AliasNames(plan) == [i \in 1 .. Len(plan.output_schema_) |-> IF i = 1 THEN "s.x" ELSE "s.y"]

\* the select lists planned over a two-column plan: every column in order (under
\* the columns' names or under an alias), the columns swapped, the first
\* column alone, the first column and a constant
SelectLists(plan) ==
  LET c0 == ColumnOf(plan, 0)
      c1 == ColumnOf(plan, 1)
      n  == NamesOf(plan)
  IN  IF Len(plan.output_schema_) = 2
        THEN { <<<<c0, c1>>, n>>, <<<<c0, c1>>, AliasNames(plan)>>,
               <<<<c1, c0>>, <<n[2], n[1]>>>>, <<<<c0>>, <<n[1]>>>>,
               <<<<c0, ConstantValueExpression(5, "INTEGER")>>, <<n[1], "five">>>> }
        ELSE { <<<<c0>>, n>>, <<<<c0>>, <<"s.x">>>>,
               <<<<c0, ConstantValueExpression(5, "INTEGER")>>, <<n[1], "five">>>> }

\* WHERE <first column> = 3
WherePredicate(plan) ==
  ComparisonExpression(ColumnOf(plan, 0), ConstantValueExpression(3, plan.output_schema_[1].type))

\* the plans with at most depth projections or filters over a scan
RECURSIVE PlansOfDepth(_)
PlansOfDepth(depth) ==
  IF depth = 0 THEN {SeqScanPlanNode(t) : t \in {"t1", "t2"}}
  ELSE LET below == PlansOfDepth(depth - 1) IN
         below
         \cup UNION {{PlanSelect_Projection(sl[1], sl[2], p) : sl \in SelectLists(p)} : p \in below}
         \cup {PlanSelect_Filter(WherePredicate(p), p) : p \in below}

MergePool == PlansOfDepth(MaxStack)

\* plan->CloneWithChildren(children)
CloneWithChildren(plan, children) == [plan EXCEPT !.children_ = children]

\* std::equal over the two column lists, comparing GetType(): line 41-45
SameColumnTypes(child_columns, projection_columns) ==
  /\ Len(child_columns) = Len(projection_columns)
  /\ \A i \in 1 .. Len(child_columns) : child_columns[i].type = projection_columns[i].type

\* the loop of line 48-58: every expression idx is the column (0, idx)
is_identical(exprs) ==
  \A idx \in 1 .. Len(exprs) :
    /\ exprs[idx].kind = "ColumnValue"
    /\ exprs[idx].tuple_idx_ = 0
    /\ exprs[idx].col_idx_ = idx - 1

\* mutant: the child is returned with its own output schema
MergeAt_KeepChildSchema(optimized_plan) ==
  IF optimized_plan.type = "Projection"
    THEN LET child_plan == optimized_plan.children_[1] IN
           IF /\ SameColumnTypes(child_plan.output_schema_, optimized_plan.output_schema_)
              /\ is_identical(optimized_plan.expressions_)
             THEN child_plan
             ELSE optimized_plan
    ELSE optimized_plan

\* OptimizeMergeProjection line 30-68, on a node whose children are optimized
MergeAt(optimized_plan) ==
  IF optimized_plan.type = "Projection"
    THEN LET child_plan        == optimized_plan.children_[1]
             child_schema      == child_plan.output_schema_
             projection_schema == optimized_plan.output_schema_
         IN  IF /\ SameColumnTypes(child_schema, projection_schema)
                /\ is_identical(optimized_plan.expressions_)
               THEN [CloneWithChildren(child_plan, child_plan.children_)
                       EXCEPT !.output_schema_ = projection_schema]
               ELSE optimized_plan
    ELSE optimized_plan

\* mutant: the rule applied to the node without optimizing its children first
OptimizeMergeProjection_NoRecurse(plan) == MergeAt(plan)

\* OptimizeMergeProjection line 20-69
RECURSIVE OptimizeMergeProjection(_)
OptimizeMergeProjection(plan) ==
  MergeAt(CloneWithChildren(plan,
            [i \in 1 .. Len(plan.children_) |-> OptimizeMergeProjection(plan.children_[i])]))

\* the value of an expression over a row: AbstractExpression::Evaluate
RECURSIVE Evaluate(_, _)
Evaluate(expr, row) ==
  CASE expr.kind = "ColumnValue" -> row[expr.col_idx_ + 1]
    [] expr.kind = "Constant"    -> expr.val_
    [] expr.kind = "Comparison"  ->
         IF Evaluate(expr.children_[1], row) = Evaluate(expr.children_[2], row) THEN 1 ELSE 0
    [] OTHER ->
         LET l == Evaluate(expr.children_[1], row)
             r == Evaluate(expr.children_[2], row)
         IN  CASE expr.expr_type_ = "L2Dist"       -> Abs(l - r)
               [] expr.expr_type_ = "InnerProduct" -> 0 - l * r
               [] OTHER                            -> IF l * r > 0 THEN 0 ELSE 2

\* Sort: a stable sort of the child's rows by the ordering key
RECURSIVE StableInsert(_, _, _, _)
StableInsert(sorted, row, expr, sign) ==
  IF sorted = <<>> THEN <<row>>
  ELSE IF sign * Evaluate(expr, Head(sorted)) <= sign * Evaluate(expr, row)
         THEN <<Head(sorted)>> \o StableInsert(Tail(sorted), row, expr, sign)
         ELSE <<row>> \o sorted

RECURSIVE StableSort(_, _, _, _)
StableSort(rows, n, expr, sign) ==
  IF n = 0 THEN <<>>
  ELSE StableInsert(StableSort(rows, n - 1, expr, sign), rows[n], expr, sign)

\* the rows a plan produces, in order (executors of scan, projection, filter,
\* sort and limit)
RECURSIVE Rows(_)
Rows(plan) ==
  LET below == Rows(plan.children_[1]) IN
    CASE plan.type = "SeqScan"    -> TableRows(plan.table_)
      [] plan.type = "Projection" ->
           [i \in 1 .. Len(below) |->
              [j \in 1 .. Len(plan.expressions_) |-> Evaluate(plan.expressions_[j], below[i])]]
      [] plan.type = "Filter"     ->
           SelectSeq(below, LAMBDA row : Evaluate(plan.expressions_[1], row) = 1)
      [] plan.type = "Sort"       ->
           StableSort(below, Len(below), plan.expressions_[1],
                      IF plan.order_by_ = "ASC" THEN 1 ELSE 0 - 1)
      [] plan.type = "Limit"      ->
           SubSeq(below, 1, IF plan.limit_ < Len(below) THEN plan.limit_ ELSE Len(below))
      [] OTHER -> <<>>

\* the vector indexes a table can carry: kind, operator class, key column
IndexChoices ==
  {<<ty, oc[1], oc[2]>> : ty \in {"VectorIVFFlatIndex", "VectorHNSWIndex"},
                          oc \in {<<"vector_l2_ops", 0>>, <<"vector_ip_ops", 0>>,
                                  <<"vector_l2_ops", 1>>}}

\* the IndexInfo CreateVectorIndex registers for CREATE INDEX name ON t2 USING kind
\* (column ops); ops is the operator class the statement named
VectorIndexInfo(name, choice) ==
  [name_ |-> name, table_name_ |-> "t2", index_type_ |-> choice[1],
   vty |-> DistanceFnToType(choice[2]), ops |-> choice[2], key_attrs_ |-> choice[3]]

\* what Catalog::GetTableIndexes can return for t2: up to two indexes
IndexLists ==
  {<<>>} \cup {<<VectorIndexInfo("i1", a)>> : a \in IndexChoices}
         \cup {<<VectorIndexInfo("i1", a), VectorIndexInfo("i2", b)>> : a, b \in IndexChoices}

\* the values of the session variable vector_index_method
Methods == {"unset", "none", "ivfflat", "hnsw"}

\* the sort key distance(column, constant), the operands in either order
IsDistanceToConstant(expr) ==
  /\ expr.kind = "Vector"
  /\ {expr.children_[1].kind, expr.children_[2].kind} = {"ColumnValue", "Constant"}

DistanceColumn(expr) ==
  IF expr.children_[1].kind = "ColumnValue" THEN expr.children_[1] ELSE expr.children_[2]

DistanceConstant(expr) ==
  IF expr.children_[1].kind = "Constant" THEN expr.children_[1] ELSE expr.children_[2]

\* whether vector_index_method lets an index of this kind be chosen
MethodAllows(method, index_type) ==
  CASE method = "none"    -> FALSE
    [] method = "ivfflat" -> index_type = "VectorIVFFlatIndex"
    [] method = "hnsw"    -> index_type = "VectorHNSWIndex"
    [] OTHER              -> index_type \in {"VectorIVFFlatIndex", "VectorHNSWIndex"}

\* the first index, from position i on, on the column with the distance function
\* of the sort key that the method allows; 0 when there is none
RECURSIVE MatchVectorIndex(_, _, _, _, _, _)
MatchVectorIndex(indexes, i, table, col_idx, vty, method) ==
  IF i > Len(indexes) THEN 0
  ELSE IF /\ indexes[i].table_name_ = table
          /\ indexes[i].key_attrs_ = col_idx
          /\ indexes[i].vty = vty
          /\ MethodAllows(method, indexes[i].index_type_)
         THEN i
         ELSE MatchVectorIndex(indexes, i + 1, table, col_idx, vty, method)

\* the rule on a node whose children are optimized:
\* Limit(k, Sort([(ASC, distance(col, const))], SeqScan(t)))
VectorIndexScanAt(optimized_plan, indexes, method) ==
  LET sort == optimized_plan.children_[1]
      scan == sort.children_[1]
      key  == sort.expressions_[1]
  IN  IF /\ optimized_plan.type = "Limit"
         /\ sort.type = "Sort" /\ sort.order_by_ = "ASC" /\ IsDistanceToConstant(key)
         /\ scan.type = "SeqScan"
        THEN LET i == MatchVectorIndex(indexes, 1, scan.table_, DistanceColumn(key).col_idx_,
                                       key.expr_type_, method)
             IN  IF i = 0 THEN optimized_plan
                 ELSE VectorIndexScanPlanNode(optimized_plan.output_schema_, scan.table_,
                                              indexes[i].name_, DistanceConstant(key),
                                              optimized_plan.limit_)
        ELSE optimized_plan

\* the rule, bottom-up like every other rule
RECURSIVE OptimizeAsVectorIndexScan(_, _, _)
OptimizeAsVectorIndexScan(plan, indexes, method) ==
  VectorIndexScanAt(
    CloneWithChildren(plan,
      [i \in 1 .. Len(plan.children_) |->
         OptimizeAsVectorIndexScan(plan.children_[i], indexes, method)]),
    indexes, method)

\* the queries SELECT ... FROM t2 ORDER BY <key> LIMIT k, over the scan and
\* over a select list that keeps both columns
KnnChildren ==
  LET scan == SeqScanPlanNode("t2") IN
    {scan,
     PlanSelect_Projection(<<ColumnOf(scan, 0), ColumnOf(scan, 1)>>, AliasNames(scan), scan),
     PlanSelect_Projection(<<ColumnOf(scan, 1), ColumnOf(scan, 0)>>, <<"b", "a">>, scan)}

SortKeys(plan) ==
  LET q == ConstantValueExpression(2, "VECTOR") IN
    {ColumnOf(plan, 0)}
    \cup {VectorExpression(fn, ColumnOf(plan, c), q) : fn \in {"L2Dist", "InnerProduct"}, c \in {0, 1}}
    \cup {VectorExpression(fn, q, ColumnOf(plan, c)) : fn \in {"L2Dist", "InnerProduct"}, c \in {0, 1}}

KnnPool ==
  UNION {{PlanSelect_SortLimit(order_by, key, limit, c) :
            order_by \in {"ASC", "DESC"}, key \in SortKeys(c), limit \in 1 .. MaxLimit} :
         c \in KnnChildren}

\* the plan the next pass is given
CurrentPlan == IF o_passes = <<>> THEN o_plan ELSE o_passes[Len(o_passes)].plan_out

\* InsertPlanNode(output, child, table_oid)
InsertPlanNode(output, child, table) ==
  PlanNode("Insert", output, <<child>>, <<>>, table, 0, "", "")

\* no insert statement planned
NoInsert == [raised |-> "none", plan |-> NoPlan, table |-> ""]

\* mutant: the columns compared up to the shorter of the two lists
PlanInsert_SchemaMatches_Shorter(table_schema, child_schema) ==
  \A i \in 1 .. Len(table_schema) :
    i <= Len(child_schema) => table_schema[i].type = child_schema[i].type

\* PlanInsert line 249-250: std::equal over both column lists, comparing GetType()
PlanInsert_SchemaMatches(table_schema, child_schema) ==
  /\ Len(table_schema) = Len(child_schema)
  /\ \A i \in 1 .. Len(table_schema) : table_schema[i].type = child_schema[i].type

\* Planner::PlanInsert line 243-260 for INSERT INTO table <select>, the select
\* planned as o_plan
PlanInsert(table) ==
  /\ o_passes = <<>>
  /\ p_insert = NoInsert
  /\ LET select == o_plan IN
       IF ~PlanInsert_SchemaMatches(TableSchema(table), select.output_schema_)
         THEN p_insert' = [raised |-> "table schema mismatch", plan |-> NoPlan, table |-> table]
         ELSE p_insert' =
                [raised |-> "none", table |-> table,
                 plan |-> InsertPlanNode(<<Column("__vdbms_internal.insert_rows", "INTEGER")>>,
                                         select, table)]
  /\ UNCHANGED <<session_variables_, o_indexes, o_plan, o_passes>>
  /\ UNCHANGED othersOfOpt

\* a pass of the merge-projection rule; the rules run in their order, so not
\* after the vector-index rule
Optimize_MergeProjection ==
  /\ p_insert = NoInsert
  /\ Len(o_passes) < MaxPasses
  /\ \A i \in 1 .. Len(o_passes) : o_passes[i].rule = "MergeProjection"
  /\ o_passes' = Append(o_passes, [rule |-> "MergeProjection", plan_in |-> CurrentPlan,
                                   plan_out |-> OptimizeMergeProjection(CurrentPlan)])
  /\ UNCHANGED <<session_variables_, o_indexes, o_plan, p_insert>>
  /\ UNCHANGED othersOfOpt

\* a pass of the vector-index-scan rule
Optimize_VectorIndexScan ==
  /\ p_insert = NoInsert
  /\ Len(o_passes) < MaxPasses
  /\ o_passes' = Append(o_passes,
       [rule |-> "VectorIndexScan", plan_in |-> CurrentPlan,
        plan_out |-> OptimizeAsVectorIndexScan(CurrentPlan, o_indexes, session_variables_)])
  /\ UNCHANGED <<session_variables_, o_indexes, o_plan, p_insert>>
  /\ UNCHANGED othersOfOpt

NextOpt ==
  \/ Optimize_MergeProjection
  \/ Optimize_VectorIndexScan
  \/ \E table \in {"t1", "t2"} : PlanInsert(table)


----------------------------------------------------------------------------
(* Transactions: TransactionManager (Begin, Commit, Abort,                 *)
(* GarbageCollection), its Watermark, and the statements run in a          *)
(* transaction through vdbmsInstance::ExecuteSqlTxn.  Statements run one   *)
(* at a time, each to its end, as the callers of ExecuteSqlTxn issue them. *)

\* txn ids start at TXN_START_ID and a tuple written by a running transaction
\* carries its id as timestamp; any value above every commit timestamp does
TXN_START_ID == 100

NoLink == [txn |-> 0, idx |-> 0]
NoStmt == [kind |-> "none", txn |-> 0, rid |-> 0, raised |-> "none", rows |-> <<>>]
Stmt(kind, txn, rid, ex, rows) ==
  [kind |-> kind, txn |-> txn, rid |-> rid, raised |-> ex, rows |-> rows]

\* the transactions the callers begin over one behaviour, by id
TxnIds == {1, 2, 3}
TxnValues == {1, 2}

\* Transaction::GetTransactionTempTs
TempTs(txn) == TXN_START_ID + txn

Min(S) == CHOOSE x \in S : \A y \in S : x <= y

\* Watermark::AddTxn(read_ts): one more running transaction reads at read_ts
AddTxn(wm, read_ts) ==
  LET reads == IF read_ts \in DOMAIN wm.current_reads_
                 THEN [wm.current_reads_ EXCEPT ![read_ts] = @ + 1]
                 ELSE [ts \in DOMAIN wm.current_reads_ \cup {read_ts} |->
                         IF ts = read_ts THEN 1 ELSE wm.current_reads_[ts]]
  IN  [wm EXCEPT !.current_reads_ = reads, !.watermark_ = Min(DOMAIN reads)]

\* Watermark::RemoveTxn(read_ts): the entry goes with its last reader
RemoveTxn(wm, read_ts) ==
  LET reads == IF wm.current_reads_[read_ts] > 1
                 THEN [wm.current_reads_ EXCEPT ![read_ts] = @ - 1]
                 ELSE [ts \in DOMAIN wm.current_reads_ \ {read_ts} |-> wm.current_reads_[ts]]
  IN  [wm EXCEPT !.current_reads_ = reads,
                 !.watermark_ = IF DOMAIN reads = {} THEN wm.commit_ts_ ELSE Min(DOMAIN reads)]

\* Watermark::UpdateCommitTs, left out
UpdateCommitTs_Skipped(wm, commit_ts) == wm

\* Watermark::UpdateCommitTs
UpdateCommitTs(wm, commit_ts) == [wm EXCEPT !.commit_ts_ = commit_ts]

\* Watermark::GetWatermark
GetWatermark(wm) == IF DOMAIN wm.current_reads_ = {} THEN wm.commit_ts_ ELSE wm.watermark_

\* TransactionManager::Begin with the read timestamp of the first transaction
Begin_StaleReadTs ==
  /\ next_txn_id_ \in TxnIds
  /\ txn_map_' = [id \in DOMAIN txn_map_ \cup {next_txn_id_} |->
                    IF id = next_txn_id_
                      THEN [state_ |-> "RUNNING", read_ts_ |-> 0, commit_ts_ |-> -1,
                            undo_logs_ |-> <<>>]
                      ELSE txn_map_[id]]
  /\ next_txn_id_' = next_txn_id_ + 1
  /\ running_txns_' = AddTxn(running_txns_, 0)
  /\ t_stmt' = Stmt("begin", next_txn_id_, 0, "none", <<>>)
  /\ UNCHANGED <<last_commit_ts_, t_heap, t_gced>>
  /\ UNCHANGED othersOfTxn

\* TransactionManager::Begin: the new transaction reads at last_commit_ts_
Begin ==
  /\ next_txn_id_ \in TxnIds
  /\ txn_map_' = [id \in DOMAIN txn_map_ \cup {next_txn_id_} |->
                    IF id = next_txn_id_
                      THEN [state_ |-> "RUNNING", read_ts_ |-> last_commit_ts_, commit_ts_ |-> -1,
                            undo_logs_ |-> <<>>]
                      ELSE txn_map_[id]]
  /\ next_txn_id_' = next_txn_id_ + 1
  /\ running_txns_' = AddTxn(running_txns_, last_commit_ts_)
  /\ t_stmt' = Stmt("begin", next_txn_id_, 0, "none", <<>>)
  /\ UNCHANGED <<last_commit_ts_, t_heap, t_gced>>
  /\ UNCHANGED othersOfTxn

\* the slots txn wrote get ts as their timestamp
StampWrites(heap, txn, ts) ==
  [i \in 1 .. Len(heap) |-> IF heap[i].ts_ = TempTs(txn) THEN [heap[i] EXCEPT !.ts_ = ts] ELSE heap[i]]

\* TransactionManager::Commit of a RUNNING transaction
Commit(txn) ==
  /\ txn \in DOMAIN txn_map_
  /\ txn_map_[txn].state_ = "RUNNING"
  /\ LET commit_ts == last_commit_ts_ + 1
     IN  /\ t_heap' = StampWrites(t_heap, txn, commit_ts)
         /\ txn_map_' = [txn_map_ EXCEPT ![txn].state_ = "COMMITTED", ![txn].commit_ts_ = commit_ts]
         /\ last_commit_ts_' = commit_ts
         /\ running_txns_' = RemoveTxn(UpdateCommitTs(running_txns_, commit_ts), txn_map_[txn].read_ts_)
  /\ t_stmt' = Stmt("commit", txn, 0, "none", <<>>)
  /\ UNCHANGED <<next_txn_id_, t_gced>>
  /\ UNCHANGED othersOfTxn

\* TransactionManager::Commit of a transaction that is not RUNNING: it throws
Commit_NotRunning(txn) ==
  /\ txn \in DOMAIN txn_map_
  /\ txn_map_[txn].state_ # "RUNNING"
  /\ t_stmt' = Stmt("commit", txn, 0, "txn not in running state", <<>>)
  /\ UNCHANGED <<txn_map_, next_txn_id_, last_commit_ts_, running_txns_, t_heap, t_gced>>
  /\ UNCHANGED othersOfTxn

\* TransactionManager::Abort of a RUNNING or TAINTED transaction
Abort(txn) ==
  /\ txn \in DOMAIN txn_map_
  /\ txn_map_[txn].state_ \in {"RUNNING", "TAINTED"}
  /\ txn_map_' = [txn_map_ EXCEPT ![txn].state_ = "ABORTED"]
  /\ running_txns_' = RemoveTxn(running_txns_, txn_map_[txn].read_ts_)
  /\ t_stmt' = Stmt("abort", txn, 0, "none", <<>>)
  /\ UNCHANGED <<next_txn_id_, last_commit_ts_, t_heap, t_gced>>
  /\ UNCHANGED othersOfTxn

\* the version a reader meets behind link: the first undo log whose timestamp
\* is at most read_ts; "none" when the chain ends before one is found,
\* "lost" when a log of the chain went with its transaction
NoVersion == [kind |-> "none", is_deleted_ |-> FALSE, val |-> 0]
LostVersion == [kind |-> "lost", is_deleted_ |-> FALSE, val |-> 0]
Version(is_deleted, val) == [kind |-> "tuple", is_deleted_ |-> is_deleted, val |-> val]

RECURSIVE VersionAt(_, _, _)
VersionAt(map, link, read_ts) ==
  IF link = NoLink THEN NoVersion
  ELSE IF link.txn \notin DOMAIN map THEN LostVersion
  ELSE LET log == map[link.txn].undo_logs_[link.idx]
       IN  IF log.ts_ <= read_ts THEN Version(log.is_deleted_, log.val)
           ELSE VersionAt(map, log.prev, read_ts)

\* ReconstructTuple: the version of a slot that transaction txn reads, its own
\* write or the newest version committed at or before its read timestamp
VisibleVersion(map, row, txn) ==
  IF row.ts_ = TempTs(txn) \/ row.ts_ <= map[txn].read_ts_
    THEN Version(row.is_deleted_, row.val)
    ELSE VersionAt(map, row.link, map[txn].read_ts_)

\* the rows of SELECT * in transaction txn under snapshot isolation, in heap
\* order; a version that cannot be rebuilt shows as -1
SnapshotOf(map, heap, txn) ==
  LET vis  == [i \in 1 .. Len(heap) |-> VisibleVersion(map, heap[i], txn)]
      kept == SelectSeq(vis, LAMBDA v : v.kind = "lost" \/ (v.kind = "tuple" /\ ~v.is_deleted_))
  IN  [i \in 1 .. Len(kept) |-> IF kept[i].kind = "lost" THEN -1 ELSE kept[i].val]

\* another transaction holds the slot, or its newest version was committed
\* after txn began
WriteWriteConflict(row, txn) ==
  /\ row.ts_ # TempTs(txn)
  /\ \/ row.ts_ >= TXN_START_ID
     \/ row.ts_ > txn_map_[txn].read_ts_

\* INSERT INTO t VALUES (val) in transaction txn: the tuple takes the next slot
\* of the heap, stamped with the transaction's temporary timestamp
Insert(txn, val) ==
  /\ txn \in DOMAIN txn_map_
  /\ txn_map_[txn].state_ = "RUNNING"
  /\ Len(t_heap) < MaxTxnRows
  /\ t_heap' = Append(t_heap, [ts_ |-> TempTs(txn), is_deleted_ |-> FALSE, val |-> val, link |-> NoLink])
  /\ t_stmt' = Stmt("insert", txn, Len(t_heap) + 1, "none", <<>>)
  /\ UNCHANGED <<txn_map_, next_txn_id_, last_commit_ts_, running_txns_, t_gced>>
  /\ UNCHANGED othersOfTxn

\* SELECT * FROM t in transaction txn: SeqScanExecutor::Next hands out the tuple
\* of every slot the iterator passes
Select(txn) ==
  /\ txn \in DOMAIN txn_map_
  /\ txn_map_[txn].state_ = "RUNNING"
  /\ t_stmt' = Stmt("select", txn, 0, "none", [i \in 1 .. Len(t_heap) |-> t_heap[i].val])
  /\ UNCHANGED <<txn_map_, next_txn_id_, last_commit_ts_, running_txns_, t_heap, t_gced>>
  /\ UNCHANGED othersOfTxn

\* UPDATE t SET v = val WHERE <slot rid> in transaction txn, the slot written
\* by another transaction: the statement fails, txn is TAINTED
Update_Conflict(txn, rid, val) ==
  /\ txn \in DOMAIN txn_map_
  /\ txn_map_[txn].state_ = "RUNNING"
  /\ rid \in 1 .. Len(t_heap)
  /\ WriteWriteConflict(t_heap[rid], txn)
  /\ txn_map_' = [txn_map_ EXCEPT ![txn].state_ = "TAINTED"]
  /\ t_stmt' = Stmt("update", txn, rid, "ExecutionException", <<>>)
  /\ UNCHANGED <<next_txn_id_, last_commit_ts_, running_txns_, t_heap, t_gced>>
  /\ UNCHANGED othersOfTxn

\* UPDATE of a slot txn wrote before: the tuple changes in place
Update_Own(txn, rid, val) ==
  /\ txn \in DOMAIN txn_map_
  /\ txn_map_[txn].state_ = "RUNNING"
  /\ rid \in 1 .. Len(t_heap)
  /\ t_heap[rid].ts_ = TempTs(txn)
  /\ t_heap' = [t_heap EXCEPT ![rid].val = val]
  /\ t_stmt' = Stmt("update", txn, rid, "none", <<>>)
  /\ UNCHANGED <<txn_map_, next_txn_id_, last_commit_ts_, running_txns_, t_gced>>
  /\ UNCHANGED othersOfTxn

\* UPDATE of a slot whose newest version txn reads: the old version goes into
\* an undo log of txn, at the head of the slot's version chain
Update_Log(txn, rid, val) ==
  /\ txn \in DOMAIN txn_map_
  /\ txn_map_[txn].state_ = "RUNNING"
  /\ rid \in 1 .. Len(t_heap)
  /\ t_heap[rid].ts_ <= txn_map_[txn].read_ts_
  /\ LET row == t_heap[rid]
         log == [ts_ |-> row.ts_, is_deleted_ |-> row.is_deleted_, val |-> row.val, prev |-> row.link]
     IN  /\ txn_map_' = [txn_map_ EXCEPT ![txn].undo_logs_ = Append(@, log)]
         /\ t_heap' = [t_heap EXCEPT ![rid] =
                         [ts_ |-> TempTs(txn), is_deleted_ |-> FALSE, val |-> val,
                          link |-> [txn |-> txn, idx |-> Len(txn_map_[txn].undo_logs_) + 1]]]
  /\ t_stmt' = Stmt("update", txn, rid, "none", <<>>)
  /\ UNCHANGED <<next_txn_id_, last_commit_ts_, running_txns_, t_gced>>
  /\ UNCHANGED othersOfTxn

\* DELETE FROM t WHERE <slot rid> in transaction txn: DeleteExecutor::Init
\* throws NotImplementedException, which ExecutionEngine::Execute lets through
Delete(txn, rid) ==
  /\ txn \in DOMAIN txn_map_
  /\ txn_map_[txn].state_ = "RUNNING"
  /\ rid \in 1 .. Len(t_heap)
  /\ t_stmt' = Stmt("delete", txn, rid, "NotImplementedException", <<>>)
  /\ UNCHANGED <<txn_map_, next_txn_id_, last_commit_ts_, running_txns_, t_heap, t_gced>>
  /\ UNCHANGED othersOfTxn

\* the undo logs a reader at or above watermark wm can reach from link: every
\* log up to and with the first one whose timestamp is at most wm
RECURSIVE ChainLinks(_, _, _)
ChainLinks(map, link, wm) ==
  IF link = NoLink \/ link.txn \notin DOMAIN map THEN {}
  ELSE LET log == map[link.txn].undo_logs_[link.idx]
       IN  {link} \cup (IF log.ts_ <= wm THEN {} ELSE ChainLinks(map, log.prev, wm))

ReachableLinks(map, heap, wm) ==
  UNION {IF heap[i].ts_ <= wm THEN {} ELSE ChainLinks(map, heap[i].link, wm) : i \in 1 .. Len(heap)}

Finished(txn) == txn_map_[txn].state_ \in {"COMMITTED", "ABORTED"}

\* GarbageCollection erasing every finished transaction
Collectable_AnyFinished(txn, wm) == Finished(txn)

\* what GarbageCollection erases: a finished transaction none of whose undo
\* logs can be reached
Collectable(txn, wm) ==
  /\ Finished(txn)
  /\ \A link \in ReachableLinks(txn_map_, t_heap, wm) : link.txn # txn

\* TransactionManager::GarbageCollection
GarbageCollection ==
  /\ LET wm   == GetWatermark(running_txns_)
         gone == {txn \in DOMAIN txn_map_ : Collectable(txn, wm)}
     IN  /\ txn_map_' = [txn \in DOMAIN txn_map_ \ gone |-> txn_map_[txn]]
         /\ t_gced' = [txn \in DOMAIN t_gced \cup gone |->
                         IF txn \in gone THEN txn_map_[txn].state_ ELSE t_gced[txn]]
  /\ t_stmt' = Stmt("gc", 0, 0, "none", <<>>)
  /\ UNCHANGED <<next_txn_id_, last_commit_ts_, running_txns_, t_heap>>
  /\ UNCHANGED othersOfTxn


\* TransactionManager::TransactionManager: no transaction, commit timestamp 0
TxnInit ==
  /\ txn_map_ = <<>>
  /\ next_txn_id_ = 1
  /\ last_commit_ts_ = 0
  /\ running_txns_ = [commit_ts_ |-> 0, watermark_ |-> 0, current_reads_ |-> <<>>]
  /\ t_heap = <<>>
  /\ t_stmt = NoStmt
  /\ t_gced = <<>>

NextTxn ==
  \/ Begin
  \/ \E txn \in TxnIds :
       \/ Commit(txn)
       \/ Commit_NotRunning(txn)
       \/ Abort(txn)
       \/ Select(txn)
       \/ \E val \in TxnValues : Insert(txn, val)
       \/ \E rid \in 1 .. MaxTxnRows, val \in TxnValues :
            \/ Update_Conflict(txn, rid, val)
            \/ Update_Own(txn, rid, val)
            \/ Update_Log(txn, rid, val)
       \/ \E rid \in 1 .. MaxTxnRows : Delete(txn, rid)
  \/ GarbageCollection


----------------------------------------------------------------------------
(* vdbmsInstance::ExecuteSql, one call per action.  What the statement     *)
(* does inside ExecuteSqlTxn is an input of the call: it succeeds, Execute *)
(* returns false for it, it raises a vdbms::Exception, it raises an        *)
(* exception of another family (std::stoi in CmdTxn on "\txn x"), or it    *)
(* is a command that sets the managed transaction.                         *)

\* the transactions begun over one behaviour, by id
SqlTxnIds == {1, 2, 3}

SqlStatements ==
  [kind : {"ok", "failed", "vdbms::Exception", "std::invalid_argument", "BEGIN", "\\txn -1"}, to : {0}]
    \cup [kind : {"\\txn N"}, to : SqlTxnIds]

NoSqlCall == [began |-> 0, txn |-> 0, stmt |-> "none", outcome |-> "none", ret |-> FALSE]

\* catch (vdbms::Exception &ex): std::invalid_argument is not of that family
Catches(ex) == ex = "vdbms::Exception"

\* TransactionManager::Begin, Commit and Abort on the state of the transactions
SqlBegin(states) == Append(states, "RUNNING")
SqlCommit(states, txn) == [states EXCEPT ![txn] = "COMMITTED"]
SqlAbort(states, txn) == [states EXCEPT ![txn] = "ABORTED"]

\* vdbmsInstance::ExecuteSql(sql, writer, check_options)
ExecuteSql(stmt, commit_ok) ==
  LET is_local_txn == current_txn_ # 0
      begun        == IF is_local_txn THEN sql_state ELSE SqlBegin(sql_state)
      txn          == IF is_local_txn THEN current_txn_ ELSE Len(begun)
      \* ExecuteSqlTxn: the statement; BEGIN starts the managed transaction
      states       == IF stmt.kind = "BEGIN" THEN SqlBegin(begun) ELSE begun
      current      == CASE stmt.kind = "BEGIN" -> Len(states)
                        [] stmt.kind = "\\txn -1" -> 0
                        [] stmt.kind = "\\txn N" -> stmt.to
                        [] OTHER -> current_txn_
      result       == stmt.kind # "failed"
      raises       == stmt.kind \in {"vdbms::Exception", "std::invalid_argument"}
      \* if (!is_local_txn) Commit(txn): result is not looked at
      commits      == ~raises /\ ~is_local_txn
      ex           == IF raises THEN stmt.kind
                      ELSE IF commits /\ ~commit_ok THEN "vdbms::Exception"
                      ELSE "none"
      began        == IF is_local_txn THEN 0 ELSE txn
  IN  /\ Len(states) <= Cardinality(SqlTxnIds)
      /\ stmt.kind = "BEGIN" => ~is_local_txn
      /\ stmt.kind = "\\txn -1" => is_local_txn
      /\ stmt.kind = "\\txn N" => (stmt.to \in 1 .. Len(sql_state) /\ sql_state[stmt.to] = "RUNNING")
      /\ (is_local_txn \/ raises) => commit_ok
      /\ IF ex = "none"
           THEN /\ sql_state' = IF commits THEN SqlCommit(states, txn) ELSE states
                /\ current_txn_' = current
                /\ sql_call' = [began |-> began, txn |-> txn, stmt |-> stmt.kind,
                                outcome |-> "returned", ret |-> result]
           ELSE IF Catches(ex)
             THEN /\ sql_state' = SqlAbort(states, txn)
                  /\ current_txn_' = 0
                  /\ sql_call' = [began |-> began, txn |-> txn, stmt |-> stmt.kind,
                                  outcome |-> ex, ret |-> FALSE]
             ELSE /\ sql_state' = states
                  /\ current_txn_' = current_txn_
                  /\ sql_call' = [began |-> began, txn |-> txn, stmt |-> stmt.kind,
                                  outcome |-> ex, ret |-> FALSE]
      /\ UNCHANGED othersOfSql

\* vdbmsInstance::vdbmsInstance: no managed transaction
SqlInit ==
  /\ current_txn_ = 0
  /\ sql_state = <<>>
  /\ sql_call = NoSqlCall

NextSql == \E stmt \in SqlStatements, commit_ok \in BOOLEAN : ExecuteSql(stmt, commit_ok)


----------------------------------------------------------------------------
(* catalog_lock_ and the code that takes it.  A thread that is inside      *)
(* Catalog::CreateTable is writing the maps of the catalog.                *)

\* the threads calling into one instance
Callers == {"c1", "c2", "c3", "c4"}

\* std::shared_lock<std::shared_mutex>: granted while no thread holds the mutex uniquely
LockShared(c) ==
  /\ catalog_lock_.unique = NoThread
  /\ catalog_lock_' = [catalog_lock_ EXCEPT !.shared = @ \cup {c}]

\* std::unique_lock<std::shared_mutex>: granted while no thread holds the mutex at all
LockUnique(c) ==
  /\ catalog_lock_.unique = NoThread
  /\ catalog_lock_.shared = {}
  /\ catalog_lock_' = [catalog_lock_ EXCEPT !.unique = c]

Unlock(c) ==
  catalog_lock_' = [unique |-> IF catalog_lock_.unique = c THEN NoThread ELSE catalog_lock_.unique,
                    shared |-> catalog_lock_.shared \ {c}]

\* vdbmsInstance::GenerateMockTable: std::shared_lock l(catalog_lock_)
GenerateMockTable_Lock(c) ==
  /\ k_pc[c] = "idle"
  /\ LockShared(c)
  /\ k_pc' = [k_pc EXCEPT ![c] = "mock_locked"]
  /\ UNCHANGED othersOfLock

\* vdbmsInstance::GenerateMockTable: catalog_->CreateTable(txn, *table_name, ...)
GenerateMockTable_CreateTable(c) ==
  /\ k_pc[c] = "mock_locked"
  /\ k_pc' = [k_pc EXCEPT ![c] = "mock_creating"]
  /\ UNCHANGED <<catalog_lock_, othersOfLock>>

\* vdbmsInstance::GenerateMockTable: CreateTable returns, l.unlock()
GenerateMockTable_Unlock(c) ==
  /\ k_pc[c] = "mock_creating"
  /\ Unlock(c)
  /\ k_pc' = [k_pc EXCEPT ![c] = "idle"]
  /\ UNCHANGED othersOfLock

\* vdbmsInstance::ExecuteSqlTxn: std::shared_lock l(catalog_lock_) around the binder
ExecuteSqlTxn_Lock(c) ==
  /\ k_pc[c] = "idle"
  /\ LockShared(c)
  /\ k_pc' = [k_pc EXCEPT ![c] = "reading"]
  /\ UNCHANGED othersOfLock

\* vdbmsInstance::ExecuteSqlTxn: l.unlock()
ExecuteSqlTxn_Unlock(c) ==
  /\ k_pc[c] = "reading"
  /\ Unlock(c)
  /\ k_pc' = [k_pc EXCEPT ![c] = "idle"]
  /\ UNCHANGED othersOfLock

\* vdbmsInstance::HandleCreateStatement: the DDL statement takes the lock exclusively
HandleCreateStatement_Lock(c) ==
  /\ k_pc[c] = "idle"
  /\ LockUnique(c)
  /\ k_pc' = [k_pc EXCEPT ![c] = "ddl_locked"]
  /\ UNCHANGED othersOfLock

\* vdbmsInstance::HandleCreateStatement: catalog_->CreateTable(...)
HandleCreateStatement_CreateTable(c) ==
  /\ k_pc[c] = "ddl_locked"
  /\ k_pc' = [k_pc EXCEPT ![c] = "ddl_creating"]
  /\ UNCHANGED <<catalog_lock_, othersOfLock>>

\* vdbmsInstance::HandleCreateStatement: CreateTable returns, the lock is released
HandleCreateStatement_Unlock(c) ==
  /\ k_pc[c] = "ddl_creating"
  /\ Unlock(c)
  /\ k_pc' = [k_pc EXCEPT ![c] = "idle"]
  /\ UNCHANGED othersOfLock

\* vdbmsInstance::vdbmsInstance: the lock is free
LockInit ==
  /\ catalog_lock_ = [unique |-> NoThread, shared |-> {}]
  /\ k_pc = [c \in Callers |-> "idle"]

NextLock ==
  \E c \in Callers :
    \/ GenerateMockTable_Lock(c)
    \/ GenerateMockTable_CreateTable(c)
    \/ GenerateMockTable_Unlock(c)
    \/ ExecuteSqlTxn_Lock(c)
    \/ ExecuteSqlTxn_Unlock(c)
    \/ HandleCreateStatement_Lock(c)
    \/ HandleCreateStatement_CreateTable(c)
    \/ HandleCreateStatement_Unlock(c)


----------------------------------------------------------------------------
(* ComputeDistance called by several threads with CACHE_ENABLED.  The      *)
(* cache is a std::unordered_map: find and operator[] are steps with a     *)
(* beginning and an end, and nothing in ComputeDistance orders them.  An   *)
(* access that overlaps an insertion by another thread is a data race,     *)
(* recorded in the position of the thread ("_raced").                      *)

\* the threads computing distances
DistCallers == {"d1", "d2", "d3"}

\* the (left, right) pairs they ask for
DistKeys == {"ab", "cd"}

Finding == {t \in DistCallers : dc_pc[t] \in {"finding", "finding_raced"}}
Storing == {t \in DistCallers : dc_pc[t] \in {"storing", "storing_raced"}}

CacheUp == "crashed" \notin {dc_pc[u] : u \in DistCallers}

\* line 24-25: key = make_pair(left, right); distance_cache.find(key) begins
ComputeDistance_FindBegin(t, key) ==
  /\ CacheUp
  /\ dc_pc[t] = "idle"
  /\ dc_pc' = [dc_pc EXCEPT ![t] = IF Storing = {} THEN "finding" ELSE "finding_raced"]
  /\ dc_key' = [dc_key EXCEPT ![t] = key]
  /\ UNCHANGED <<dc_cache, othersOfCache>>

\* line 25-28: find returns; a hit returns iter->second, a miss goes on to
\* compute.  A find that overlapped an insertion may hit, miss or bring the
\* process down.
ComputeDistance_FindEnd(t) ==
  /\ CacheUp
  /\ t \in Finding
  /\ \E outcome \in {"idle", "computing", "crashed"} :
       /\ dc_pc[t] = "finding" =>
            outcome = (IF dc_key[t] \in dc_cache THEN "idle" ELSE "computing")
       /\ dc_pc' = [dc_pc EXCEPT ![t] = outcome]
  /\ UNCHANGED <<dc_cache, dc_key, othersOfCache>>

\* line 67-68: distance_cache[{left, right}] = ..., distance_cache[{right, left}] = ... begins
ComputeDistance_StoreBegin(t) ==
  /\ CacheUp
  /\ dc_pc[t] = "computing"
  /\ dc_pc' = [u \in DistCallers |->
                 IF u = t THEN (IF Storing = {} THEN "storing" ELSE "storing_raced")
                 ELSE IF dc_pc[u] = "finding" THEN "finding_raced"
                 ELSE IF dc_pc[u] = "storing" THEN "storing_raced"
                 ELSE dc_pc[u]]
  /\ UNCHANGED <<dc_cache, dc_key, othersOfCache>>

\* line 68-70: the insertion is done, return std::sqrt(dist).  An insertion
\* that overlapped another may be lost or bring the process down.
ComputeDistance_StoreEnd(t) ==
  /\ CacheUp
  /\ t \in Storing
  /\ \E outcome \in {"stored", "lost", "crashed"} :
       /\ dc_pc[t] = "storing" => outcome = "stored"
       /\ dc_cache' = IF outcome = "stored" THEN dc_cache \cup {dc_key[t]} ELSE dc_cache
       /\ dc_pc' = [dc_pc EXCEPT ![t] = IF outcome = "crashed" THEN "crashed" ELSE "idle"]
  /\ UNCHANGED <<dc_key, othersOfCache>>

\* config.cpp: the cache starts empty
CacheInit ==
  /\ dc_cache = {}
  /\ dc_pc = [t \in DistCallers |-> "idle"]
  /\ dc_key = [t \in DistCallers |-> "ab"]

NextCache ==
  \E t \in DistCallers :
    \/ \E key \in DistKeys : ComputeDistance_FindBegin(t, key)
    \/ ComputeDistance_FindEnd(t)
    \/ ComputeDistance_StoreBegin(t)
    \/ ComputeDistance_StoreEnd(t)

----------------------------------------------------------------------------

vars == <<heapVars, procVars, writerVars, queryVars, subsysVars>>

\* TableHeap::TableHeap(bpm): one initialised, empty page that is first and last;
\* no query has started
ExecInit ==
  /\ pages = [p \in PageIds |-> EmptyPage]
  /\ numPages = 1
  /\ first_page_id = 0
  /\ last_page_id = 0
  /\ latch_ = NoThread
  /\ wlatch = [p \in PageIds |-> NoThread]
  /\ alive = TRUE
  /\ termReason = ""
  /\ NDEBUG = "unset"
  /\ nextId = 1
  /\ w_pc = [t \in Writers |-> "idle"]
  /\ w_tuple = [t \in Writers |-> NoTuple]
  /\ w_page = [t \in Writers |-> INVALID_PAGE_ID]
  /\ w_npg = [t \in Writers |-> INVALID_PAGE_ID]
  /\ w_ret = [t \in Writers |-> NoRID]
  /\ hist = {}
  /\ q_pc = "idle"
  /\ q_driver = "none"
  /\ q_plan = "none"
  /\ q_join = NoJoin
  /\ it_rid = InvalidRID
  /\ it_stop = InvalidRID
  /\ mk_last = INVALID_PAGE_ID
  /\ mk_num = 0
  /\ q_cur = [meta |-> [is_deleted_ |-> FALSE], tuple |-> [id |-> 0, rid_ |-> InvalidRID]]
  /\ result_set = <<>>
  /\ q_ret = "none"
  /\ raised = "none"
  /\ produced = <<>>
  /\ init_count = 0
  /\ next_count = 0
  /\ false_count = 0
  /\ late_rows = 0
  /\ snap_made = {}

\* config.cpp: nothing cached, no ComputeDistance call made
DistIdle ==
  /\ distance_cache = <<>>
  /\ d_pc = "idle"
  /\ d_call = NoCall
  /\ d_ret = NoValue
  /\ d_prev = NoCall
  /\ d_count = 0

\* Catalog::Catalog: no table, no index, both OID counters at 0
CatInit ==
  /\ tables_ = <<>>
  /\ table_names_ = <<>>
  /\ next_table_oid_ = 0
  /\ indexes_ = <<>>
  /\ index_names_ = <<>>
  /\ next_index_oid_ = 0
  /\ c_ret = "none"
  /\ c_count = 0
  /\ c_table_log = <<>>
  /\ c_index_log = <<>>

\* no statement planned, vector_index_method not set
OptIdle ==
  /\ session_variables_ = "unset"
  /\ o_indexes = <<>>
  /\ o_plan = NoPlan
  /\ o_passes = <<>>
  /\ p_insert = NoInsert

Init ==
  /\ ExecInit
  /\ CACHE_ENABLED = FALSE /\ SIMD_ENABLED = FALSE
  /\ DistIdle
  /\ CatInit
  /\ OptIdle
  /\ TxnInit
  /\ SqlInit
  /\ LockInit
  /\ CacheInit

\* the process with any setting of the two switches of config.cpp
InitDist ==
  /\ ExecInit
  /\ CACHE_ENABLED \in BOOLEAN /\ SIMD_ENABLED \in BOOLEAN
  /\ DistIdle
  /\ CatInit
  /\ OptIdle
  /\ TxnInit
  /\ SqlInit
  /\ LockInit
  /\ CacheInit

\* the process with a planned statement: a select over projections and filters,
\* or a nearest-neighbour query over t2 with t2's indexes and the session variable
InitOpt ==
  /\ ExecInit
  /\ CACHE_ENABLED = FALSE /\ SIMD_ENABLED = FALSE
  /\ DistIdle
  /\ CatInit
  /\ TxnInit
  /\ SqlInit
  /\ LockInit
  /\ CacheInit
  /\ o_passes = <<>>
  /\ p_insert = NoInsert
  /\ \/ /\ o_plan \in MergePool
        /\ o_indexes = <<>>
        /\ session_variables_ = "unset"
     \/ /\ o_plan \in KnnPool
        /\ o_indexes \in IndexLists
        /\ session_variables_ \in Methods

Drivers == {"Execute", "Parent"}

Next ==
  \/ \E t \in Writers : InsertTuple(t)
  \/ \E d \in Drivers, p \in Plans : Query_Start(d, p)
  \/ Query_StartNoInit
  \/ MakeIterator_ReadLast
  \/ MakeIterator_ReadNum
  \/ MakeIterator_Construct
  \/ SeqScan_Next_End
  \/ SeqScan_Next_GetTuple
  \/ SeqScan_Next_Inc
  \/ SeqScan_Next_AssertFail
  \/ SeqScan_Next_NoSlot
  \/ DeleteExecutor_Init
  \/ DeleteExecutor_Next
  \/ \E d \in Drivers, ty \in JoinTypes, l \in LeftInputs, r \in RightInputs :
       \/ NestedLoopJoin_Construct(d, ty, l, r)
       \/ NestedLoopJoin_Unsupported(d, ty, l, r)
  \/ NestedLoopJoin_Init
  \/ Child_Init_Ok
  \/ \E ex \in Exceptions : Child_Init_Raise(ex)
  \/ Child_Next_Row
  \/ Child_Next_False
  \/ \E ex \in Exceptions : Child_Next_Raise(ex)

Spec == Init /\ [][Next]_vars

\* the threads that take the heap mutex and the page latches: InsertTuple callers
\* and a scan that makes its iterator
FairCalls == {1, 2, 3}

\* thread t starts one of the calls FairCalls numbers, or goes on with its call
InsertTuple_Fair(t) ==
  \/ \E size \in {1, PageCap, PageCap + 1} : nextId \in FairCalls /\ InsertTuple_Lock(t, size, FALSE)
  \/ InsertTuple_WLatch(t)
  \/ InsertTuple_TooLarge(t)
  \/ InsertTuple_NoPage(t)
  \/ InsertTuple_NewPage(t)
  \/ InsertTuple_UnlatchOld(t)
  \/ InsertTuple_LatchNew(t)
  \/ InsertTuple_Write(t)
  \/ InsertTuple_Return(t)

NextHeap ==
  \/ \E t \in Writers : InsertTuple_Fair(t)
  \/ \E d \in Drivers : Query_Start(d, "SeqScan")
  \/ MakeIterator_ReadLast
  \/ MakeIterator_ReadNum
  \/ MakeIterator_Construct

\* every thread that can take a step is scheduled
SpecHeapFair ==
  /\ Init
  /\ [][NextHeap]_vars
  /\ \A t \in Writers : WF_vars(InsertTuple_Fair(t))
  /\ WF_vars(MakeIterator_ReadLast \/ MakeIterator_ReadNum \/ MakeIterator_Construct)

SpecDist == InitDist /\ [][NextDist]_vars

SpecCat == Init /\ [][NextCat]_vars

SpecOpt == InitOpt /\ [][NextOpt]_vars

SpecTxn == Init /\ [][NextTxn]_vars

SpecSql == Init /\ [][NextSql]_vars

SpecLock == Init /\ [][NextLock]_vars

SpecCache == Init /\ [][NextCache]_vars

----------------------------------------------------------------------------
(* Helpers of the claims.                                                  *)

\* heap order of RIDs: by page along the chain, then by slot
RidLess(a, b) == a[1] < b[1] \/ (a[1] = b[1] /\ a[2] < b[2])

TuplesOf(rows) == [i \in DOMAIN rows |-> rows[i].tuple]

JoinRow(l, r) == [tuple |-> [id |-> <<l, r>>, rid_ |-> InvalidRID], rid |-> InvalidRID,
                  meta |-> [is_deleted_ |-> FALSE]]

\* the join predicate of the plans offered: left.a = right.b
Matched(l, r) == l = r

RECURSIVE MatchesOf(_, _)
MatchesOf(l, rs) ==
  IF rs = <<>> THEN <<>>
  ELSE (IF Matched(l, Head(rs)) THEN <<JoinRow(l, Head(rs))>> ELSE <<>>)
       \o MatchesOf(l, Tail(rs))

RECURSIVE InnerJoinRows(_, _)
InnerJoinRows(ls, rs) ==
  IF ls = <<>> THEN <<>> ELSE MatchesOf(Head(ls), rs) \o InnerJoinRows(Tail(ls), rs)

RECURSIVE LeftJoinRows(_, _)
LeftJoinRows(ls, rs) ==
  IF ls = <<>> THEN <<>>
  ELSE (IF MatchesOf(Head(ls), rs) = <<>> THEN <<JoinRow(Head(ls), "null")>>
        ELSE MatchesOf(Head(ls), rs))
       \o LeftJoinRows(Tail(ls), rs)

----------------------------------------------------------------------------
(* C1: a SeqScan emits only tuples whose slot existed when its iterator    *)
(* was created (here: by the time MakeIterator returned), whatever         *)
(* InsertTuple calls run meanwhile, and it reaches its end: it never runs  *)
(* out of the range its snapshot gives it.                                 *)
C1_SnapshotOnly ==
  q_plan = "SeqScan" =>
    /\ \A i \in DOMAIN produced : produced[i].rid \in snap_made
    /\ q_pc # "aborted"

(* C2: SeqScanExecutor::Next never emits a tuple whose TupleMeta has       *)
(* is_deleted_ = true; the rows it emits come each once, in heap order.    *)
C2_NoTombstones ==
  q_plan = "SeqScan" =>
    /\ \A i \in DOMAIN produced : ~produced[i].meta.is_deleted_
    /\ \A i, j \in DOMAIN produced : i < j => RidLess(produced[i].rid, produced[j].rid)

(* C3: Execute calls Init exactly once and before any Next, calls Next     *)
(* until the first false result and never again; when nothing is raised it *)
(* returns true and result_set holds exactly the rows Next produced, in    *)
(* production order.                                                       *)
C3_ExecuteProtocol ==
  q_driver = "Execute" =>
    /\ init_count <= 1
    /\ next_count > 0 => init_count = 1
    /\ false_count <= 1
    /\ false_count = 1 => q_pc = "returned" /\ next_count = Len(produced) + 1
    /\ raised = "none" => result_set = TuplesOf(produced)
    /\ (q_pc = "returned" /\ raised = "none") => q_ret = "true" /\ false_count = 1
    /\ q_ret = "true" => raised = "none"

C3_Witness ==
  /\ q_driver = "Execute" /\ q_plan = "SeqScan"
  /\ q_pc = "returned" /\ q_ret = "true"
  /\ Len(result_set) >= 2

(* C4: when Init or a Next raises an ExecutionException, Execute returns   *)
(* false and result_set is empty, whatever rows were appended before; any  *)
(* other exception leaves Execute without being caught.                    *)
C4_ExceptionHandling ==
  q_driver = "Execute" =>
    /\ raised = "ExecutionException" =>
         q_pc = "returned" /\ q_ret = "false" /\ result_set = <<>>
    /\ raised \notin {"none", "ExecutionException"} =>
         q_pc = "propagated" /\ q_ret = "none"
    /\ q_ret = "false" => raised = "ExecutionException"

C4_Witness ==
  /\ q_driver = "Execute"
  /\ raised = "ExecutionException"
  /\ Len(produced) >= 1
  /\ q_ret = "false"

C6_InnerJoin ==
  (q_plan = "NestedLoopJoin" /\ q_join.type = "INNER") =>
    /\ q_pc # "crashed"
    /\ false_count >= 1 => produced = InnerJoinRows(q_join.left, q_join.right)

(* C7: a LEFT NestedLoopJoin emits, for every left row without a match,    *)
(* one row of its columns followed by nulls, and for a left row with       *)
(* matches only the matching rows; with an empty right side the output is  *)
(* the left side with the right columns nulled.                            *)
C7_LeftJoin ==
  (q_plan = "NestedLoopJoin" /\ q_join.type = "LEFT") =>
    /\ q_pc # "crashed"
    /\ false_count >= 1 => produced = LeftJoinRows(q_join.left, q_join.right)

(* C8: executing a Delete plan raises nothing and emits exactly one row,   *)
(* the number of rows deleted, after which Next returns false.             *)
C8_DeleteEmitsCount ==
  q_plan = "Delete" =>
    /\ raised = "none"
    /\ false_count >= 1 => Len(produced) = 1

(* C9: InsertTuple of a tuple that fits in no page returns to its caller   *)
(* with no RID, the heap mutex and the page write latch released.          *)
C9_TooLargeReturns ==
  \A t \in Writers :
    w_tuple[t].size > PageCap =>
      /\ w_pc[t] # "terminated"
      /\ w_pc[t] = "idle" =>
           /\ w_ret[t] = NoRID
           /\ latch_ # t
           /\ \A p \in PageIds : wlatch[p] # t

(* C10: every (tuple, rid) a SeqScan emits has tuple.rid_ = rid and names  *)
(* the slot that holds the tuple; the RID an InsertTuple call returned     *)
(* keeps naming the slot that holds the inserted tuple.                    *)
C10_RidStable ==
  /\ q_plan = "SeqScan" =>
       \A i \in DOMAIN produced :
         /\ produced[i].tuple.rid_ = produced[i].rid
         /\ SlotExists(produced[i].rid)
         /\ PageGetTuple(pages[GetPageId(produced[i].rid)], produced[i].rid).tuple.id
              = produced[i].tuple.id
  /\ \A h \in hist :
       /\ SlotExists(h.rid)
       /\ pages[GetPageId(h.rid)].tuples[GetSlotNum(h.rid) + 1].id = h.id

C10_Witness ==
  /\ q_plan = "SeqScan"
  /\ Len(produced) >= 2
  /\ GetPageId(produced[2].rid) = 1
  /\ Cardinality(hist) >= 2

----------------------------------------------------------------------------
(* Helpers of the distance claims.                                         *)

\* the pure distance function f(a, b): the scalar loops over 0 .. d - 1
PureDistance(a, b, f) == Kernel(FALSE, a, b, f, 0)

\* the last call returned a distance for two vectors of one dimension
ReturnedForEqualDims ==
  d_pc = "returned" /\ Len(d_call.left) = Len(d_call.right)

(* C11: with the distance cache enabled (and the scalar loops in use), a   *)
(* ComputeDistance(a, b, f) call returns the value of the pure function    *)
(* f(a, b), whatever calls were made before it.                            *)
C11_CacheTransparent ==
  (CACHE_ENABLED /\ ~SIMD_ENABLED /\ ReturnedForEqualDims) =>
    d_ret = PureDistance(d_call.left, d_call.right, d_call.dist_fn)

(* C12: ComputeDistance(a, b, f) and ComputeDistance(b, a, f), called one  *)
(* after the other on vectors of one dimension, return the same value,     *)
(* with the cache disabled and with it enabled.                            *)
C12_Symmetric ==
  (/\ ReturnedForEqualDims
   /\ d_prev.dist_fn = d_call.dist_fn
   /\ d_prev.left = d_call.right
   /\ d_prev.right = d_call.left) =>
    d_ret = d_prev.ret

(* C13: with SIMD enabled (and no cache), ComputeDistance returns what the *)
(* scalar loop returns for every dimension, and it reads no element past   *)
(* the end of its vectors.                                                 *)
C13_SimdEqualsScalar ==
  (SIMD_ENABLED /\ ~CACHE_ENABLED /\ ReturnedForEqualDims) =>
    /\ d_ret = PureDistance(d_call.left, d_call.right, d_call.dist_fn)
    /\ ~ReadsPastEnd(SIMD_ENABLED, Len(d_call.left), d_call.dist_fn)

(* C14: a distance computation on two vectors of different dimensions      *)
(* yields no distance value and fails with an error its caller receives:   *)
(* the process goes on.                                                    *)
C14_MismatchFails ==
  (d_pc # "idle" /\ Len(d_call.left) # Len(d_call.right)) =>
    /\ d_pc # "returned"
    /\ alive

----------------------------------------------------------------------------
(* Helpers of the catalog claims.                                          *)

StrictlyIncreasing(log) == \A i, j \in DOMAIN log : i < j => log[i] < log[j]

Failures == {"NULL_TABLE_INFO", "NULL_INDEX_INFO", "UNIMPLEMENTED"}

CatalogContent == <<tables_, table_names_, index_names_, indexes_, next_table_oid_, next_index_oid_>>

(* C15: table names are unique, index names are unique within their table, *)
(* every table and every index has an OID of its own, OIDs are handed out  *)
(* in strictly increasing order of creation, and a creation that fails     *)
(* takes no OID: each counter equals the number of creations so far.       *)
C15_NamesAndOidsUnique ==
  /\ \A o1, o2 \in DOMAIN tables_ : tables_[o1].name_ = tables_[o2].name_ => o1 = o2
  /\ \A o1, o2 \in DOMAIN indexes_ :
       (indexes_[o1].table_name_ = indexes_[o2].table_name_
        /\ indexes_[o1].name_ = indexes_[o2].name_) => o1 = o2
  /\ \A o \in DOMAIN tables_ : tables_[o].oid_ = o /\ table_names_[tables_[o].name_] = o
  /\ \A o \in DOMAIN indexes_ :
       /\ indexes_[o].index_oid_ = o
       /\ index_names_[indexes_[o].table_name_][indexes_[o].name_] = o
  /\ StrictlyIncreasing(c_table_log) /\ StrictlyIncreasing(c_index_log)
  /\ DOMAIN tables_ = {c_table_log[i] : i \in DOMAIN c_table_log}
  /\ DOMAIN indexes_ = {c_index_log[i] : i \in DOMAIN c_index_log}
  /\ next_table_oid_ = Len(c_table_log)
  /\ next_index_oid_ = Len(c_index_log)

C15_Witness ==
  /\ Len(c_table_log) = 2
  /\ Len(c_index_log) >= 1
  /\ c_ret \in Failures

(* C16: a DDL call that fails leaves tables, indexes, name maps and OID    *)
(* counters as they were; and a call succeeds only if it had to: a table   *)
(* is created only under a new name, an index only on an existing table,   *)
(* under a name new to that table, with a supported type and function.     *)
C16_FailedDDLFrame ==
  [][c_count' # c_count =>
       /\ c_ret' \in Failures => UNCHANGED CatalogContent
       /\ c_ret' = "TableInfo" =>
            \E o \in DOMAIN tables_' \ DOMAIN tables_ : ~TableExists(tables_'[o].name_)
       /\ c_ret' = "IndexInfo" =>
            \E o \in DOMAIN indexes_' \ DOMAIN indexes_ :
              LET ix == indexes_'[o] IN
                /\ TableExists(ix.table_name_)
                /\ ~IndexExists(ix.table_name_, ix.name_)
                /\ ix.vty # "UNIMPLEMENTED"
                /\ (ix.vty = "none") = (ix.index_type_ \in {"HashTableIndex",
                       "BPlusTreeIndex", "STLOrderedIndex", "STLUnorderedIndex"})]_vars

C16_Witness ==
  /\ c_ret = "UNIMPLEMENTED"
  /\ DOMAIN indexes_ # {}
  /\ TotalRows >= 1

(* C17: for every index on a table (vector indexes aside) and every row of *)
(* the table that is not tombstoned, scanning the index with the row's key *)
(* returns the row's RID.                                                  *)
C17_IndexCoversRows ==
  \A o \in DOMAIN indexes_ :
    CreateIndex_Supports(indexes_[o].index_type_) =>
      LET rows == tables_[table_names_[indexes_[o].table_name_]].rows IN
        \A i \in DOMAIN rows :
          ~rows[i].is_deleted_ => RID(0, i - 1) \in ScanKey(indexes_[o].entries, rows[i].key)

\* the operator class whose distance function an ORDER BY operator computes
OpsOfOperator(expr_type) ==
  IF expr_type = "L2Dist" THEN "vector_l2_ops" ELSE "vector_ip_ops"

\* whether a node of the given type occurs in the plan
RECURSIVE HasNode(_, _)
HasNode(plan, type) ==
  \/ plan.type = type
  \/ \E i \in 1 .. Len(plan.children_) : HasNode(plan.children_[i], type)

\* Limit(k, Sort([(ASC, distance(col, const))], SeqScan(t)))
IsKnnPattern(plan) ==
  /\ plan.type = "Limit"
  /\ plan.children_[1].type = "Sort"
  /\ plan.children_[1].order_by_ = "ASC"
  /\ plan.children_[1].expressions_[1].kind = "Vector"
  /\ \E a, b \in {1, 2} :
       /\ plan.children_[1].expressions_[1].children_[a].kind = "ColumnValue"
       /\ plan.children_[1].expressions_[1].children_[b].kind = "Constant"
  /\ plan.children_[1].children_[1].type = "SeqScan"

\* the positions of the indexes the rewrite of a matching plan may choose
UsableIndexes(plan) ==
  LET key == plan.children_[1].expressions_[1] IN
    {i \in 1 .. Len(o_indexes) :
       /\ o_indexes[i].table_name_ = plan.children_[1].children_[1].table_
       /\ \E a \in {1, 2} : /\ key.children_[a].kind = "ColumnValue"
                            /\ key.children_[a].col_idx_ = o_indexes[i].key_attrs_
       /\ o_indexes[i].ops = OpsOfOperator(key.expr_type_)
       /\ session_variables_ # "none"
       /\ session_variables_ = "ivfflat" => o_indexes[i].index_type_ = "VectorIVFFlatIndex"
       /\ session_variables_ = "hnsw" => o_indexes[i].index_type_ = "VectorHNSWIndex"}

IdentityProjection(plan) ==
  LET child == plan.children_[1].output_schema_ IN
    /\ plan.type = "Projection"
    /\ Len(plan.output_schema_) = Len(child)
    /\ \A i \in 1 .. Len(child) : plan.output_schema_[i].type = child[i].type
    /\ Len(plan.expressions_) = Len(child)
    /\ \A i \in 1 .. Len(child) :
         plan.expressions_[i] = ColumnValueExpression(0, i - 1, child[i].type)

\* the Projection nodes of a plan, and those among them that are identities
RECURSIVE Projections(_, _)
Projections(plan, identities) ==
  LET here == IF /\ plan.type = "Projection"
                 /\ identities => IdentityProjection(plan)
                THEN 1 ELSE 0
  IN  IF plan.children_ = <<>> THEN here
      ELSE here + Projections(plan.children_[1], identities)

(* C19: a pass of OptimizeMergeProjection removes exactly the projections  *)
(* that compute their child's columns in order under the same types: none  *)
(* of them is left, every other node is kept; and the plan's output schema *)
(* (names and types) and the rows it produces are the same as before.      *)
C19_MergeProjection ==
  \A n \in 1 .. Len(o_passes) :
    LET p   == o_passes[n].plan_in
        out == o_passes[n].plan_out
    IN  o_passes[n].rule = "MergeProjection" =>
          /\ Projections(out, TRUE) = 0
          /\ Projections(out, FALSE) = Projections(p, FALSE) - Projections(p, TRUE)
          /\ out.output_schema_ = p.output_schema_
          /\ Rows(out) = Rows(p)

\* a projection that renames the columns of a scan was merged: the scan now
\* carries the projection's column names
C19_Witness ==
  /\ Len(o_passes) >= 1
  /\ o_passes[1].rule = "MergeProjection"
  /\ o_plan.type = "Projection"
  /\ o_passes[1].plan_out.type = "SeqScan"
  /\ o_passes[1].plan_out.output_schema_ # TableSchema(o_passes[1].plan_out.table_)

(* C20: a second pass of OptimizeMergeProjection over the result of a      *)
(* first returns the same plan tree.                                       *)
C20_Idempotent ==
  \A n \in 1 .. Len(o_passes) - 1 :
    o_passes[n].rule = "MergeProjection" /\ o_passes[n + 1].rule = "MergeProjection"
      => o_passes[n + 1].plan_out = o_passes[n].plan_out

\* two passes over a stack of two identity projections, which the first pass
\* merged into the scan
C20_Witness ==
  /\ Len(o_passes) >= 2
  /\ o_passes[1].rule = "MergeProjection" /\ o_passes[2].rule = "MergeProjection"
  /\ IdentityProjection(o_plan)
  /\ IdentityProjection(o_plan.children_[1])
  /\ o_passes[1].plan_out.type = "SeqScan"

(* C21: PlanInsert returns an Insert plan exactly when the source plan and *)
(* the target table have as many columns and the same type in every        *)
(* position; otherwise it raises "table schema mismatch" and there is no   *)
(* plan. The Insert plan has one output column, of type INTEGER, the       *)
(* source plan as its child and the target table.                          *)
C21_PlanInsertSchema ==
  p_insert # NoInsert =>
    LET target == TableSchema(p_insert.table)
        same   == [i \in 1 .. Len(o_plan.output_schema_) |-> o_plan.output_schema_[i].type]
                    = [i \in 1 .. Len(target) |-> target[i].type]
    IN  /\ (p_insert.raised = "none") = same
        /\ IF same
             THEN /\ p_insert.plan.type = "Insert"
                  /\ p_insert.plan.table_ = p_insert.table
                  /\ Len(p_insert.plan.output_schema_) = 1
                  /\ p_insert.plan.output_schema_[1].type = "INTEGER"
                  /\ p_insert.plan.children_ = <<o_plan>>
             ELSE /\ p_insert.raised = "table schema mismatch"
                  /\ p_insert.plan = NoPlan

\* an insert was accepted into t1 from a select that renames its columns
C21_Witness ==
  /\ p_insert.raised = "none"
  /\ p_insert.plan.type = "Insert"
  /\ p_insert.plan.table_ = "t1"
  /\ o_plan.type = "Projection"
  /\ o_plan.output_schema_ # TableSchema("t1")

\* the transactions that are neither committed nor aborted
RunningTxns == {txn \in DOMAIN txn_map_ : txn_map_[txn].state_ \in {"RUNNING", "TAINTED"}}

(* C22: a SELECT run in transaction T returns exactly the rows as of T's   *)
(* read timestamp plus T's own uncommitted changes: what other             *)
(* transactions wrote and did not commit, or committed after T began, is   *)
(* not in the result.                                                      *)
C22_SnapshotRead ==
  t_stmt.kind = "select" => t_stmt.rows = SnapshotOf(txn_map_, t_heap, t_stmt.txn)

(* C23: an UPDATE or DELETE by T of a row that another uncommitted         *)
(* transaction wrote, or whose newest version was committed after T's read *)
(* timestamp, fails, leaves T TAINTED and leaves the row as it was.        *)
C23_WriteWriteConflict ==
  [][(/\ t_stmt' # t_stmt
      /\ t_stmt'.kind \in {"update", "delete"}
      /\ WriteWriteConflict(t_heap[t_stmt'.rid], t_stmt'.txn))
     => /\ t_stmt'.raised # "none"
        /\ txn_map_'[t_stmt'.txn].state_ = "TAINTED"
        /\ t_heap' = t_heap]_vars

WatermarkOfRunning ==
  IF RunningTxns = {} THEN last_commit_ts_
  ELSE Min({txn_map_[txn].read_ts_ : txn \in RunningTxns})

C27_LatchedAccess ==
  [][(q_plan = "SeqScan" /\ q_pc = "ready" /\ q_pc' = "scan_inc")
       => wlatch[GetPageId(it_rid)] = NoThread]_vars

(* C28: whenever TableIterator::operator++ is about to run, its range      *)
(* assertion holds: the cursor is on a page before the stop page, or on    *)
(* the stop page with next slot <= stop slot, whatever InsertTuple calls   *)
(* ran between MakeIterator, the construction and the increments.          *)
C28_RangeAssertion ==
  (q_plan = "SeqScan" /\ q_pc = "scan_inc") => InRange(it_rid, it_stop)

(* C29: InsertTuple allocates a page only when the last page cannot take   *)
(* the tuple and holds at least one; the new page is the successor of the  *)
(* old last page when it becomes last_page_id, both done by the thread     *)
(* that holds the heap mutex; MakeIterator reads last_page_id only while   *)
(* no other thread holds the mutex.                                        *)
C29_LastPageUnderMutex ==
  [][/\ numPages' # numPages
          => /\ latch_ \in Writers
             /\ numPages' = numPages + 1
             /\ ~Fits(pages[last_page_id], w_tuple[latch_])
             /\ GetNumTuples(pages[last_page_id]) >= 1
             /\ pages'[last_page_id].next = numPages
     /\ last_page_id' # last_page_id
          => /\ latch_ \in Writers /\ latch_' = latch_
             /\ w_pc[latch_] = "latch_new"
             /\ pages[last_page_id].next = last_page_id'
             /\ last_page_id' = numPages - 1
             /\ GetNumTuples(pages[last_page_id']) = 0
     /\ (q_pc = "init" /\ q_pc' = "mk_num")
          => /\ latch_ = NoThread
             /\ mk_last' = last_page_id
     /\ \A t \in Writers :
          (w_pc[t] = "idle" /\ w_pc'[t] = "wlatch")
             => latch_ = NoThread /\ latch_' = t /\ w_page'[t] = last_page_id
     /\ \A t \in Writers :
          w_ret'[t] # w_ret[t] /\ w_ret'[t] # NoRID
             => latch_ = t /\ GetPageId(w_ret'[t]) = last_page_id]_vars

\* a second page was allocated behind a full first page and is the last page,
\* and a scan read last_page_id after that
C29_Witness ==
  /\ numPages = 2
  /\ last_page_id = 1
  /\ pages[0].next = 1
  /\ GetNumTuples(pages[0]) >= 1
  /\ GetNumTuples(pages[1]) >= 1
  /\ mk_last = 1

(* C30: a constructed TableIterator whose IsEnd() is false stands on an    *)
(* existing slot (slot index < number of tuples of its page), so GetTuple  *)
(* on it never addresses a missing slot.                                   *)
C30_CursorOnSlot ==
  (q_plan = "SeqScan" /\ q_pc = "ready" /\ ~IsEnd(it_rid)) => SlotExists(it_rid)

\* the pages met when following next pointers from page p, n steps at most
RECURSIVE ChainFrom(_, _)
ChainFrom(p, n) ==
  IF p = INVALID_PAGE_ID \/ n = 0 THEN <<>>
  ELSE <<p>> \o ChainFrom(pages[p].next, n - 1)

\* the pages the buffer pool has handed out
AllocatedPages == 0 .. (numPages - 1)

(* C35: an InsertTuple that fails because the tuple fits in no page has    *)
(* allocated and linked no page and has left last_page_id alone; the last  *)
(* page of a heap that holds tuples then holds at least one tuple.         *)
C35_FailedInsertNoEffect ==
  termReason = "tuple is too large, cannot insert" =>
    /\ \A t \in Writers : w_pc[t] = "terminated" => w_npg[t] = INVALID_PAGE_ID
    /\ (\E p \in AllocatedPages : GetNumTuples(pages[p]) > 0)
         => GetNumTuples(pages[last_page_id]) >= 1

(* C38: whenever no InsertTuple call holds the heap mutex, first_page_id   *)
(* is the page the constructor made, the pages reached from it by next     *)
(* pointers are all the allocated pages, each once, last_page_id is the    *)
(* end of that chain and has no successor.                                 *)
C38_PageChain ==
  latch_ = NoThread =>
    LET chain == ChainFrom(first_page_id, MaxPages + 1) IN
      /\ first_page_id = 0
      /\ Len(chain) = numPages
      /\ {chain[i] : i \in 1 .. Len(chain)} = AllocatedPages
      /\ chain[Len(chain)] = last_page_id
      /\ pages[last_page_id].next = INVALID_PAGE_ID

\* two pages are chained and both hold tuples, no call in its critical section
C38_Witness ==
  /\ latch_ = NoThread
  /\ numPages = 2
  /\ last_page_id = 1
  /\ GetNumTuples(pages[0]) >= 1
  /\ GetNumTuples(pages[1]) >= 1

(* C39: the RIDs InsertTuple calls have returned are pairwise distinct,    *)
(* each names the slot that holds the call's tuple, and a call takes the   *)
(* first free slot of the page that is last_page_id when it writes.        *)
C39_DistinctRids ==
  /\ [](/\ \A h1, h2 \in hist : h1.rid = h2.rid => h1.id = h2.id
        /\ \A h \in hist :
             /\ SlotExists(h.rid)
             /\ pages[GetPageId(h.rid)].tuples[GetSlotNum(h.rid) + 1].id = h.id)
  /\ [][\A t \in Writers :
          (w_ret'[t] # w_ret[t] /\ w_ret'[t] # NoRID)
            => /\ w_ret'[t] = RID(last_page_id, GetNumTuples(pages[last_page_id]))
               /\ pages'[last_page_id].tuples = Append(pages[last_page_id].tuples, w_tuple[t])
               /\ \A p \in PageIds \ {last_page_id} : pages'[p] = pages[p]]_vars

\* one call has returned slot 0 of the first page, a second has written slot 1
\* of it and still holds the page latch, a third holds the heap mutex
C39_Witness ==
  /\ \E h \in hist : h.rid = RID(0, 0)
  /\ \E t \in Writers : w_pc[t] = "unlatch" /\ w_ret[t] = RID(0, 1)
  /\ \E t \in Writers : w_pc[t] = "wlatch"

C31_InitCheck ==
  (q_plan = "NestedLoopJoin" /\ q_driver = "Execute" /\ q_pc \notin {"idle", "init", "propagated"})
    => /\ alive
       /\ PerformChecks(q_join)

(* C32: with no managed transaction active, ExecuteSql does not commit the *)
(* transaction it began when ExecutionEngine::Execute returned false for   *)
(* the statement.                                                          *)
C32_CommitOnlyOnSuccess ==
  (sql_call.began # 0 /\ sql_call.stmt = "failed")
    => sql_state[sql_call.began] # "COMMITTED"

(* C37: when control has left ExecuteSql, the transaction it began itself  *)
(* is finished: committed when the call returned, aborted when an          *)
(* exception left it; after a vdbms::Exception the transaction the         *)
(* statement ran in is aborted and there is no managed transaction.        *)
C37_TxnFinished ==
  sql_call.outcome # "none" =>
    /\ sql_call.began # 0 => sql_state[sql_call.began] \in {"COMMITTED", "ABORTED"}
    /\ (sql_call.began # 0 /\ sql_call.outcome = "returned")
         => sql_state[sql_call.began] = "COMMITTED"
    /\ sql_call.outcome = "vdbms::Exception"
         => /\ sql_state[sql_call.txn] = "ABORTED"
            /\ current_txn_ = 0

\* the threads inside Catalog::CreateTable
InCreateTable == {c \in Callers : k_pc[c] \in {"mock_creating", "ddl_creating"}}

(* C33: a thread that is mutating the catalog holds catalog_lock_          *)
(* exclusively; no thread mutates it holding the lock shared or not at all.*)
C33_ExclusiveMutation ==
  \A c \in InCreateTable : catalog_lock_.unique = c

(* C34: with the cache enabled, no lookup in distance_cache runs while     *)
(* another thread is inserting into it, and no two insertions run          *)
(* together.                                                               *)
C34_CacheSynchronized ==
  /\ Storing # {} => Finding = {}
  /\ Cardinality(Storing) <= 1


=============================================================================
